---- MODULE Spec2Model ----
(***************************************************************************)
(* A model of libsvgdom: the node tree (dom/document.rs, dom/iterators.rs) *)
(* and the parse/resolve pipeline (parser/parser.rs).                      *)
(*                                                                         *)
(* Nodes are numbered in creation order; node 1 is the document root and   *)
(* 0 stands for None.  A node handle that Rust keeps in an Rc is a number  *)
(* here, the RefCell's NodeData is the record nodes[n].                    *)
(***************************************************************************)
EXTENDS Integers, Sequences, FiniteSets, TLC

VARIABLES
    nodes,      \* Seq of NodeData: every node created so far
    cur_node,   \* parse_svg: `node: Option<Node>`
    cur_parent, \* parse_svg: `parent: Node`
    post,       \* parse_svg: `post_data: PostData`
    opt,        \* the ParseOptions handed to parse_svg
    tk,         \* the tokenizer's position: "content" or "tag" (inside a start tag)
    pc,         \* the statement of parse_svg that runs next
    err,        \* the ErrorKind parse_svg returned, or "none"
    idx,        \* the loop index of the running `for` loop of parse_svg
    log,        \* the phases that ran so far, in order
    iter,       \* the iterator a caller holds: a Traverse or a LinkedNodes
    yielded,    \* what the calls of iter.next() returned so far, in order
    call        \* the last call a user of the library made, with its result

vars == <<nodes, cur_node, cur_parent, post, opt, tk, pc, err, idx, log,
          iter, yielded, call>>

----------------------------------------------------------------------------
(* Bounds of the model *)

\* the most calls of next() made on an iterator that is exhausted
MaxIdle == 2
\* the most items of a NumberList or LengthList that is written
MaxItems == 2

\* the most `style` attributes a document holds
MaxStyleAttrs == 1
\* the most characters of the value of a `class` attribute
MaxClassLen == 3

\* the most nodes a run creates besides the root
MaxNodes == 3
\* the most entries of PostData.css_list
MaxCss == 1
\* the most deferred links a resolve_links run is given
MaxLinks == 2

NONE == 0
ROOT == 1

----------------------------------------------------------------------------
(* Names: svgparser's ElementId and AttributeId, and foreign names *)

ElementIds == {"svg", "g", "rect", "use", "mask", "clipPath", "marker",
               "style", "linearGradient", "text", "tspan", "tref"}
AttributeIds == {"id", "style", "class", "type", "fill", "stroke", "filter",
                 "visibility", "transform", "d", "stroke-dasharray"}
\* names that are no AttributeId (svg::Name::Xml)
XmlAttributeNames == {"data-x"}
AttributeKeys == AttributeIds \cup XmlAttributeNames
\* the id values and IRI targets of the documents considered
IdNames == {"a", "m"}
\* the ENTITY names of the documents considered
EntityNames == {"e"}

\* an attribute that a node does not have
Absent == [k |-> "absent", v |-> "", n |-> NONE]
\* AttributeValue::String, ::PredefValue, ::Color, ::Link
StringValue(s) == [k |-> "String", v |-> s, n |-> NONE]
PredefValue(s) == [k |-> "PredefValue", v |-> s, n |-> NONE]
ColorValue(c) == [k |-> "Color", v |-> c, n |-> NONE]
LinkValue(node) == [k |-> "Link", v |-> "", n |-> node]
\* AttributeValue::Transform, ::Path, ::LengthList, as the text they are of
TransformValue(t) == [k |-> "Transform", v |-> t, n |-> NONE]
PathValue(t) == [k |-> "Path", v |-> t, n |-> NONE]
LengthListValue(t) == [k |-> "LengthList", v |-> t, n |-> NONE]

NoAttributes == [a \in AttributeKeys |-> Absent]

----------------------------------------------------------------------------
(* dom/document.rs: node construction *)

new_node(doc, node_type, tag_name) ==
    [doc |-> doc, node_type |-> node_type, tag_name |-> tag_name, id |-> "",
     parent |-> NONE, first_child |-> NONE, last_child |-> NONE,
     prev_sibling |-> NONE, next_sibling |-> NONE,
     attributes |-> NoAttributes]

\* Document::new: the root node alone
new_document == <<new_node(NONE, "Root", "")>>

\* Document::create_element / create_node: the node is added to the heap,
\* detached; its handle is Len of the result
\* Document::create_element that makes the root the parent of the node
create_element_attached(ns, tag_name) ==
    Append(ns, [new_node(ROOT, "Element", tag_name) EXCEPT !.parent = ROOT])

\* create_element panics on an empty string tag name
create_element_panics(tag_name) == tag_name = ""

create_element(ns, tag_name) ==
    Append(ns, new_node(ROOT, "Element", tag_name))
create_node(ns, node_type) == Append(ns, new_node(ROOT, node_type, ""))

----------------------------------------------------------------------------
(* Node accessors and mutation primitives (dom/node.rs) *)

has_children(ns, n) == ns[n].first_child # NONE
is_tag_name(ns, n, eid) == ns[n].node_type = "Element" /\ ns[n].tag_name = eid
\* Node::tag_id: the ElementId of an SVG element, NONE otherwise
has_tag_id(ns, n) == ns[n].node_type = "Element" /\ ns[n].tag_name \in ElementIds
\* Node::is_svg_element that is true of every element
is_svg_element_any(ns, n) == ns[n].node_type = "Element"

is_svg_element(ns, n) == has_tag_id(ns, n)

\* Node::detach that leaves the last_child of the parent as it is
detach_keeps_last_child(ns, n) ==
    LET p == ns[n].parent
        prev == ns[n].prev_sibling
        next == ns[n].next_sibling
        s1 == [ns EXCEPT ![n].parent = NONE, ![n].prev_sibling = NONE,
                         ![n].next_sibling = NONE]
        s2 == IF next # NONE THEN [s1 EXCEPT ![next].prev_sibling = prev]
              ELSE s1
    IN  IF prev # NONE THEN [s2 EXCEPT ![prev].next_sibling = next]
        ELSE IF p # NONE THEN [s2 EXCEPT ![p].first_child = next]
        ELSE s2

detach(ns, n) ==
    LET p == ns[n].parent
        prev == ns[n].prev_sibling
        next == ns[n].next_sibling
        s1 == [ns EXCEPT ![n].parent = NONE, ![n].prev_sibling = NONE,
                         ![n].next_sibling = NONE]
        s2 == IF next # NONE THEN [s1 EXCEPT ![next].prev_sibling = prev]
              ELSE IF p # NONE THEN [s1 EXCEPT ![p].last_child = prev]
              ELSE s1
    IN  IF prev # NONE THEN [s2 EXCEPT ![prev].next_sibling = next]
        ELSE IF p # NONE THEN [s2 EXCEPT ![p].first_child = next]
        ELSE s2

\* Node::append once the new child d[c] is detached
append_detached(d, p, c) ==
    LET last == d[p].last_child
        s1 == [d EXCEPT ![c].parent = p, ![c].prev_sibling = last]
        s2 == IF last # NONE THEN [s1 EXCEPT ![last].next_sibling = c]
              ELSE [s1 EXCEPT ![p].first_child = c]
    IN  [s2 EXCEPT ![p].last_child = c]

\* Node::append that makes the new child the first child
append_as_first(ns, p, c) ==
    LET d == detach(ns, c)
        first == d[p].first_child
        s1 == [d EXCEPT ![c].parent = p, ![c].next_sibling = first]
        s2 == IF first # NONE THEN [s1 EXCEPT ![first].prev_sibling = c]
              ELSE [s1 EXCEPT ![p].last_child = c]
    IN  [s2 EXCEPT ![p].first_child = c]

append(ns, p, c) == append_detached(detach(ns, c), p, c)

set_attribute(ns, n, aid, value) == [ns EXCEPT ![n].attributes[aid] = value]
set_id(ns, n, id) == [ns EXCEPT ![n].id = id]

----------------------------------------------------------------------------
(* dom/iterators.rs *)

\* Children::next, run to exhaustion from the handle the iterator holds
RECURSIVE ChildrenFrom(_, _)
ChildrenFrom(ns, n) ==
    IF n = NONE THEN <<>>
    ELSE <<n>> \o ChildrenFrom(ns, ns[n].next_sibling)

children(ns, n) == ChildrenFrom(ns, ns[n].first_child)

\* filter_svg!: keeps the nodes whose tag name is an ElementId
is_svg(ns, n) == ns[n].node_type = "Element" /\ ns[n].tag_name \in ElementIds
svg(ns, seq) == SelectSeq(seq, LAMBDA n : is_svg(ns, n))

\* Iterator::nth
nth(seq, i) == IF i + 1 <= Len(seq) THEN seq[i + 1] ELSE NONE

\* Parents::next, run to exhaustion from the handle the iterator holds
RECURSIVE ParentsFrom(_, _)
ParentsFrom(ns, n) ==
    IF n = NONE THEN <<>>
    ELSE IF ns[n].node_type = "Root" THEN <<>>
    ELSE <<n>> \o ParentsFrom(ns, ns[n].parent)

\* Node::parents
parents(ns, n) == ParentsFrom(ns, ns[n].parent)

\* no iterator is held
NoIter == [kind |-> "none"]
\* no call was made
NoCall == [op |-> "none"]
\* the constructor op of an iterator was called with arg
Called(op, arg) == [op |-> op, arg |-> arg]

\* NodeEdge::Start(node), NodeEdge::End(node); Some(node) and None as
\* results of Iterator::next
Start(n) == [edge |-> "Start", node |-> n]
End(n) == [edge |-> "End", node |-> n]
Some(n) == [edge |-> "Some", node |-> n]
None == [edge |-> "None", node |-> NONE]

\* Traverse::new
new_traverse(n) == [kind |-> "Traverse", root |-> n, next |-> Start(n)]

\* Traverse::next without the test `*node == self.root`
traverse_after_no_root_test(ns, root, item) ==
    IF item.edge = "Start"
    THEN IF ns[item.node].first_child # NONE
         THEN Start(ns[item.node].first_child)
         ELSE End(item.node)
    ELSE IF ns[item.node].next_sibling # NONE
         THEN Start(ns[item.node].next_sibling)
         ELSE IF ns[item.node].parent # NONE
              THEN End(ns[item.node].parent)
              ELSE None

\* Traverse::next that goes on with the End of its root when a node has no
\* parent
traverse_after_back_to_root(ns, root, item) ==
    IF item.edge = "Start"
    THEN IF ns[item.node].first_child # NONE
         THEN Start(ns[item.node].first_child)
         ELSE End(item.node)
    ELSE IF item.node = root THEN None
         ELSE IF ns[item.node].next_sibling # NONE
              THEN Start(ns[item.node].next_sibling)
              ELSE IF ns[item.node].parent # NONE
                   THEN End(ns[item.node].parent)
                   ELSE End(root)

\* Traverse::next: the edge that follows item
traverse_after(ns, root, item) ==
    IF item.edge = "Start"
    THEN IF ns[item.node].first_child # NONE
         THEN Start(ns[item.node].first_child)
         ELSE End(item.node)
    ELSE IF item.node = root THEN None
         ELSE IF ns[item.node].next_sibling # NONE
              THEN Start(ns[item.node].next_sibling)
              ELSE IF ns[item.node].parent # NONE
                   THEN End(ns[item.node].parent)
                   ELSE None

\* Traverse::next: the iterator it leaves and the item it returns
traverse_next(ns, it) ==
    IF it.next = None THEN [iter |-> it, item |-> None]
    ELSE [iter |-> [it EXCEPT !.next = traverse_after(ns, it.root, it.next)],
          item |-> it.next]

\* Parents::new: the iterator holds the node it was given
new_parents(n) == [kind |-> "Parents", cur |-> n]

\* Parents::next without the test for the root
parents_next_yields_root(ns, it) ==
    IF it.cur = NONE THEN [iter |-> it, item |-> None]
    ELSE [iter |-> [it EXCEPT !.cur = ns[it.cur].parent],
          item |-> Some(it.cur)]

\* Parents::next: take() empties the iterator, which is filled again only
\* when a node is returned
parents_next(ns, it) ==
    IF it.cur = NONE THEN [iter |-> it, item |-> None]
    ELSE IF ns[it.cur].node_type = "Root"
         THEN [iter |-> [it EXCEPT !.cur = NONE], item |-> None]
         ELSE [iter |-> [it EXCEPT !.cur = ns[it.cur].parent],
               item |-> Some(it.cur)]

\* LinkedNodes::new; an entry of data is the node its weak link upgrades
\* to, NONE if the link has expired
new_linked_nodes(data) == [kind |-> "LinkedNodes", data |-> data, idx |-> 0]

\* LinkedNodes::next
linked_nodes_next(it) ==
    [iter |-> [it EXCEPT !.idx = it.idx + 1],
     item |-> IF it.idx < Len(it.data)
              THEN IF it.data[it.idx + 1] # NONE
                   THEN Some(it.data[it.idx + 1])
                   ELSE None
              ELSE None]

----------------------------------------------------------------------------
(* Document::drain / Node::drain *)

\* the walk of Node::_drain over a sibling chain; st = [ns, count], M the
\* set of nodes the predicate holds for
RECURSIVE drain_walk(_, _, _)
\* the walk goes on with the next sibling of n
drain_next(st, n, M) == drain_walk(st, st.ns[n].next_sibling, M)

drain_walk(st, n, M) ==
    IF n = NONE THEN st
    ELSE IF n \in M
         THEN drain_walk([ns |-> detach(st.ns, n), count |-> st.count + 1],
                         st.ns[n].next_sibling, M)
         ELSE drain_next(drain_walk(st, st.ns[n].first_child, M), n, M)

\* Document::drain that counts every node the predicate holds for
drain_counting_matches(ns, M) ==
    [ns |-> drain_walk([ns |-> ns, count |-> 0], ns[ROOT].first_child, M).ns,
     count |-> Cardinality(M \ {ROOT})]

drain(ns, M) == drain_walk([ns |-> ns, count |-> 0], ns[ROOT].first_child, M)

----------------------------------------------------------------------------
(* attribute.rs: Attribute, is_presentation and the writing of a value *)

\* the list without `fill`
PRESENTATION_ATTRIBUTES_without_fill ==
    <<"alignment-baseline", "baseline-shift", "clip-path", "clip-rule",
      "color", "color-interpolation", "color-interpolation-filters",
      "color-profile", "color-rendering", "cursor", "direction", "display",
      "dominant-baseline", "enable-background", "fill-opacity",
      "fill-rule", "filter", "flood-color", "flood-opacity", "font-family",
      "font-size", "font-size-adjust", "font-stretch", "font-style",
      "font-variant", "font-weight", "glyph-orientation-horizontal",
      "glyph-orientation-vertical", "image-rendering", "kerning",
      "letter-spacing", "lighting-color", "marker", "marker-end",
      "marker-mid", "marker-start", "mask", "opacity", "overflow",
      "pointer-events", "shape-rendering", "stop-color", "stop-opacity",
      "stroke", "stroke-dasharray", "stroke-dashoffset", "stroke-linecap",
      "stroke-linejoin", "stroke-miterlimit", "stroke-opacity",
      "stroke-width", "text-anchor", "text-decoration", "text-rendering",
      "unicode-bidi", "visibility", "word-spacing", "writing-mode">>

PRESENTATION_ATTRIBUTES ==
    <<"alignment-baseline", "baseline-shift", "clip-path", "clip-rule",
      "color", "color-interpolation", "color-interpolation-filters",
      "color-profile", "color-rendering", "cursor", "direction", "display",
      "dominant-baseline", "enable-background", "fill", "fill-opacity",
      "fill-rule", "filter", "flood-color", "flood-opacity", "font-family",
      "font-size", "font-size-adjust", "font-stretch", "font-style",
      "font-variant", "font-weight", "glyph-orientation-horizontal",
      "glyph-orientation-vertical", "image-rendering", "kerning",
      "letter-spacing", "lighting-color", "marker", "marker-end",
      "marker-mid", "marker-start", "mask", "opacity", "overflow",
      "pointer-events", "shape-rendering", "stop-color", "stop-opacity",
      "stroke", "stroke-dasharray", "stroke-dashoffset", "stroke-linecap",
      "stroke-linejoin", "stroke-miterlimit", "stroke-opacity",
      "stroke-width", "text-anchor", "text-decoration", "text-rendering",
      "unicode-bidi", "visibility", "word-spacing", "writing-mode">>

\* the AttributeIds the parser names that are not in the list
OtherAttributeIds ==
    {"id", "style", "transform", "gradient-transform", "pattern-transform",
     "d", "class", "type", "xlink:href"}
KnownAttributeIds ==
    {PRESENTATION_ATTRIBUTES[i] : i \in 1..Len(PRESENTATION_ATTRIBUTES)}
        \cup OtherAttributeIds

\* struct Attribute
AttributeOf(id, value, visible) ==
    [id |-> id, value |-> value, visible |-> visible]

\* Attribute::is_presentation
is_presentation(attr) ==
    \E i \in 1..Len(PRESENTATION_ATTRIBUTES) :
        PRESENTATION_ATTRIBUTES[i] = attr.id

\* AttributeValue::NumberList and ::LengthList, as their items
NumberListOf(items) == [k |-> "NumberList", v |-> items, n |-> NONE]
LengthListOf(items) == [k |-> "LengthList", v |-> items, n |-> NONE]

\* WriteOptions, the fields that the writing of an attribute reads or is
\* documented to read
ListSeparators == {"Comma", "Space", "CommaSpace"}
WriteOptionsOf(use_single_quote, list_separator) ==
    [use_single_quote |-> use_single_quote, list_separator |-> list_separator]

\* the buffer is the sequence of the pieces pushed to it; a number or a
\* length is one piece, written by types/number.rs and types/length.rs
written(item) == [written |-> item]

write_quote(wopt) == IF wopt.use_single_quote THEN <<"'">> ELSE <<"\"">>

\* the loop over list.iter().enumerate() from item i on
RECURSIVE write_list(_, _)
write_list(list, i) ==
    IF i >= Len(list) THEN <<>>
    ELSE <<written(list[i + 1])>>
             \o (IF i < Len(list) - 1 THEN <<" ">> ELSE <<>>)
             \o write_list(list, i + 1)

\* Attribute::write_buf_opt, appended to an empty buffer
write_buf_opt(attr, wopt) ==
    <<attr.id, "=">> \o write_quote(wopt)
        \o (CASE attr.value.k = "String" -> <<attr.value.v>>
              [] attr.value.k = "NumberList" -> write_list(attr.value.v, 0)
              [] attr.value.k = "LengthList" -> write_list(attr.value.v, 0)
              [] attr.value.k = "PredefValue" -> <<attr.value.v>>)
        \o write_quote(wopt)

----------------------------------------------------------------------------
(* Attribute value text and its parse by svgparser                         *)
(* (ParserAttributeValue::from_span, style::Tokenizer): a span is its      *)
(* text, and the parse of each text of the model is tabulated.             *)

\* what ParserAttributeValue::from_span returns
Parsed(k, v, fbk, fbv) == [k |-> k, v |-> v, fbk |-> fbk, fbv |-> fbv]

PaintTexts == {"red", "none", "url(#a)", "url(#m)", "url(#a) red",
               "url(#m) red", "url(#a) none", "url(#m) none"}

from_span(aid, text) ==
    CASE text = "&e;" -> Parsed("EntityRef", "e", "", "")
      [] aid \in {"fill", "stroke", "filter"} /\ text = "url(#a)" ->
            Parsed("FuncIRI", "a", "", "")
      [] aid \in {"fill", "stroke", "filter"} /\ text = "url(#m)" ->
            Parsed("FuncIRI", "m", "", "")
      [] aid \in {"fill", "stroke", "filter"} /\ text = "none" ->
            Parsed("PredefValue", "none", "", "")
      [] aid \in {"fill", "stroke"} /\ text = "red" ->
            Parsed("Color", "red", "", "")
      [] aid \in {"fill", "stroke"} /\ text = "url(#a) red" ->
            Parsed("FuncIRIWithFallback", "a", "Color", "red")
      [] aid \in {"fill", "stroke"} /\ text = "url(#m) red" ->
            Parsed("FuncIRIWithFallback", "m", "Color", "red")
      [] aid \in {"fill", "stroke"} /\ text = "url(#a) none" ->
            Parsed("FuncIRIWithFallback", "a", "PredefValue", "none")
      [] aid \in {"fill", "stroke"} /\ text = "url(#m) none" ->
            Parsed("FuncIRIWithFallback", "m", "PredefValue", "none")
      [] aid \in {"fill", "stroke", "filter", "visibility"} ->
            Parsed("Err", text, "", "")
      [] aid = "stroke-dasharray" -> Parsed("LengthList", text, "", "")
      [] OTHER -> Parsed("String", text, "", "")

\* the items of a LengthList: whether each of them parses, and whether
\* there is any
length_list(text) ==
    CASE text = "5 10" -> [ok |-> TRUE, empty |-> FALSE]
      [] text = "" -> [ok |-> TRUE, empty |-> TRUE]
      [] OTHER -> [ok |-> FALSE, empty |-> FALSE]

\* Transform::from_span: whether the text parses, and to the default
\* transform
transform_from_span(text) ==
    CASE text = "translate(1)" -> [ok |-> TRUE, default |-> FALSE]
      [] text = "matrix(1 0 0 1 0 0)" -> [ok |-> TRUE, default |-> TRUE]
      [] OTHER -> [ok |-> FALSE, default |-> FALSE]

\* path::Path::from_span: whether the text parses
path_from_span(text) == text = "M 0 0"

\* format!("&{};", link)
entity_ref_text(link) == IF link = "e" THEN "&e;" ELSE "&?;"

\* one token of style::Tokenizer
SvgAttribute(aid, value) == [t |-> "SvgAttribute", name |-> aid, value |-> value]
XmlAttribute(name, value) == [t |-> "XmlAttribute", name |-> name, value |-> value]
StyleEntityRef(name) == [t |-> "EntityRef", name |-> name, value |-> ""]

\* style::Tokenizer::from_span: the declarations of a style text
style_tokens(text) ==
    CASE text = "fill:red" -> <<SvgAttribute("fill", "red")>>
      [] text = "fill:none" -> <<SvgAttribute("fill", "none")>>
      [] text = "fill:url(#a)" -> <<SvgAttribute("fill", "url(#a)")>>
      [] text = "fill:url(#m)" -> <<SvgAttribute("fill", "url(#m)")>>
      [] text = "fill:url(#a) red" -> <<SvgAttribute("fill", "url(#a) red")>>
      [] text = "fill:url(#m) red" -> <<SvgAttribute("fill", "url(#m) red")>>
      [] text = "data-x:1" -> <<XmlAttribute("data-x", "1")>>
      [] text = "&e;" -> <<StyleEntityRef("e")>>
      [] OTHER -> <<>>

----------------------------------------------------------------------------
(* parser/parser.rs: the deferred data *)

\* LinkData; fbk = "" is fallback: None
LinkData(aid, iri, fbk, fbv, node) ==
    [attr_id |-> aid, iri |-> iri, fbk |-> fbk, fbv |-> fbv, node |-> node]

\* NodeSpanData
NodeSpanData(node, span) == [node |-> node, span |-> span]

\* the PostData parse_svg starts with; a HashMap is a function that maps
\* the keys it does not hold to NONE (elems_with_id) or "" (entitis: an
\* entity's text is never empty here)
new_post_data ==
    [css_list |-> <<>>,
     links |-> <<>>,
     elems_with_id |-> [i \in IdNames |-> NONE],
     entitis |-> [e \in EntityNames |-> ""],
     class_attrs |-> <<>>,
     style_attrs |-> <<>>]

\* Links::append
links_append(pd, aid, iri, fbk, fbv, node) ==
    [pd EXCEPT !.links = Append(@, LinkData(aid, iri, fbk, fbv, node))]

\* the state a function of the parser works on, and the error it returns
St(ns, pd, e) == [nodes |-> ns, post |-> pd, err |-> e]

----------------------------------------------------------------------------
(* parser/parser.rs: attributes *)

\* the recursion on an entity whose text refers to an entity again ends
\* only if the chain of references does: a chain longer than the entity
\* table has a cycle, and the recursion overflows the stack
EntityDepth == Cardinality(EntityNames)

RECURSIVE parse_svg_attribute_value(_, _, _, _, _, _, _)
\* parse_svg_attribute_value once the text is parsed to av
store_parsed_value(ns, pd, o, n, aid, av, depth) ==
    CASE av.k = "Err" ->
            IF o.skip_invalid_attributes THEN St(ns, pd, "none")
            ELSE St(ns, pd, "InvalidAttributeValue")
      [] av.k = "String" ->
            St(set_attribute(ns, n, aid, StringValue(av.v)), pd, "none")
      [] av.k \in {"IRI", "FuncIRI"} ->
            St(ns, links_append(pd, aid, av.v, "", "", n), "none")
      [] av.k = "FuncIRIWithFallback" ->
            St(ns, links_append(pd, aid, av.v, av.fbk, av.fbv, n), "none")
      [] av.k = "Color" ->
            St(set_attribute(ns, n, aid, ColorValue(av.v)), pd, "none")
      [] av.k = "PredefValue" ->
            St(set_attribute(ns, n, aid, PredefValue(av.v)), pd, "none")
      [] av.k = "LengthList" ->
            IF ~length_list(av.v).ok THEN St(ns, pd, "InvalidLength")
            ELSE IF length_list(av.v).empty THEN St(ns, pd, "none")
            ELSE St(set_attribute(ns, n, aid, LengthListValue(av.v)),
                    pd, "none")
      [] av.k = "EntityRef" ->
            IF pd.entitis[av.v] # ""
            THEN IF depth >= EntityDepth THEN St(ns, pd, "StackOverflow")
                 ELSE parse_svg_attribute_value(ns, pd, o, n, aid,
                                                pd.entitis[av.v], depth + 1)
            ELSE St(set_attribute(ns, n, aid,
                                  StringValue(entity_ref_text(av.v))),
                    pd, "none")

parse_svg_attribute_value(ns, pd, o, n, aid, text, depth) ==
    store_parsed_value(ns, pd, o, n, aid, from_span(aid, text), depth)

\* The value of a `class` attribute is the sequence of its characters, a
\* Stream over it the position of its next character.
Spaces == {" "}

\* Stream::skip_spaces: the position of the first character from pos on
\* that is no space, or the end
RECURSIVE skip_spaces(_, _)
skip_spaces(text, pos) ==
    IF pos <= Len(text) /\ text[pos] \in Spaces
    THEN skip_spaces(text, pos + 1)
    ELSE pos

\* Stream::consume_bytes(|s2, _| !s2.starts_with_space()): the position
\* after the characters consumed
RECURSIVE consume_bytes(_, _)
consume_bytes(text, pos) ==
    IF pos <= Len(text) /\ text[pos] \notin Spaces
    THEN consume_bytes(text, pos + 1)
    ELSE pos

\* the loop `while !s.at_end()` of the Class arm: the spans pushed from
\* position pos on
RECURSIVE class_spans(_, _)
class_spans(text, pos) ==
    IF pos > Len(text) THEN <<>>
    ELSE LET from == skip_spaces(text, pos)
             to == consume_bytes(text, from)
         IN  <<SubSeq(text, from, to - 1)>>
                 \o class_spans(text, skip_spaces(text, to))

\* post_data.class_attrs after the Class arm ran on the spans i..
RECURSIVE push_classes(_, _, _, _)
push_classes(list, n, spans, i) ==
    IF i > Len(spans) THEN list
    ELSE push_classes(Append(list, NodeSpanData(n, spans[i])), n, spans, i + 1)

\* parse_svg_attribute without the insertion into elems_with_id
parse_svg_attribute_no_index(ns, pd, o, n, aid, text) ==
    CASE aid = "id" -> St(set_id(ns, n, text), pd, "none")
      [] aid = "style" ->
            St(ns, [pd EXCEPT !.style_attrs = Append(@, NodeSpanData(n, text))],
               "none")
      [] aid = "transform" ->
            IF ~transform_from_span(text).ok
            THEN St(ns, pd, "InvalidTransform")
            ELSE IF transform_from_span(text).default THEN St(ns, pd, "none")
            ELSE St(set_attribute(ns, n, aid, TransformValue(text)),
                    pd, "none")
      [] aid = "d" ->
            IF ~path_from_span(text) THEN St(ns, pd, "InvalidPath")
            ELSE St(set_attribute(ns, n, "d", PathValue(text)), pd, "none")
      [] aid = "class" ->
            St(ns,
               [pd EXCEPT !.class_attrs =
                              push_classes(@, n, class_spans(text, 1), 1)],
               "none")
      [] OTHER -> parse_svg_attribute_value(ns, pd, o, n, aid, text, 0)

parse_svg_attribute(ns, pd, o, n, aid, text) ==
    CASE aid = "id" ->
            St(set_id(ns, n, text),
               [pd EXCEPT !.elems_with_id[text] = n], "none")
      [] aid = "style" ->
            St(ns, [pd EXCEPT !.style_attrs = Append(@, NodeSpanData(n, text))],
               "none")
      [] aid = "transform" ->
            IF ~transform_from_span(text).ok
            THEN St(ns, pd, "InvalidTransform")
            ELSE IF transform_from_span(text).default THEN St(ns, pd, "none")
            ELSE St(set_attribute(ns, n, aid, TransformValue(text)),
                    pd, "none")
      [] aid = "d" ->
            IF ~path_from_span(text) THEN St(ns, pd, "InvalidPath")
            ELSE St(set_attribute(ns, n, "d", PathValue(text)), pd, "none")
      [] aid = "class" ->
            St(ns,
               [pd EXCEPT !.class_attrs =
                              push_classes(@, n, class_spans(text, 1), 1)],
               "none")
      [] OTHER -> parse_svg_attribute_value(ns, pd, o, n, aid, text, 0)

parse_non_svg_attribute(ns, pd, n, name, text) ==
    IF text = "&e;"
    THEN IF pd.entitis["e"] # ""
         THEN St(set_attribute(ns, n, name, StringValue(pd.entitis["e"])),
                 pd, "none")
         ELSE St(ns, pd, "none")
    ELSE St(set_attribute(ns, n, name, StringValue(text)), pd, "none")

\* the loop of parse_style_attribute over the tokens toks[i..]
RECURSIVE parse_style_tokens(_, _, _, _, _, _)
\* `match token?` on one token of the style text
parse_style_token(ns, pd, o, n, tok, depth) ==
    CASE tok.t = "XmlAttribute" ->
            IF o.parse_unknown_attributes
            THEN St(set_attribute(ns, n, tok.name, StringValue(tok.value)),
                    pd, "none")
            ELSE St(ns, pd, "none")
      [] tok.t = "SvgAttribute" ->
            parse_svg_attribute_value(ns, pd, o, n, tok.name, tok.value, 0)
      [] tok.t = "EntityRef" ->
            IF pd.entitis[tok.name] # ""
            THEN IF depth >= EntityDepth THEN St(ns, pd, "StackOverflow")
                 ELSE parse_style_tokens(St(ns, pd, "none"), o, n,
                          style_tokens(pd.entitis[tok.name]), 1, depth + 1)
            ELSE St(ns, pd, "none")

\* the loop of parse_style_attribute over the tokens toks[i..], from the
\* state r the tokens before left
parse_style_tokens(r, o, n, toks, i, depth) ==
    IF r.err # "none" \/ i > Len(toks) THEN r
    ELSE parse_style_tokens(
             parse_style_token(r.nodes, r.post, o, n, toks[i], depth),
             o, n, toks, i + 1, depth)

parse_style_attribute(ns, pd, o, n, span) ==
    parse_style_tokens(St(ns, pd, "none"), o, n, style_tokens(span), 1, 0)

----------------------------------------------------------------------------
(* parser/parser.rs: link resolution *)

\* Node::set_attribute_checked with a node as value: the attribute becomes
\* a Link to it
set_attribute_checked(ns, n, aid, target) ==
    St(set_attribute(ns, n, aid, LinkValue(target)), <<>>, "none")

\* the value a PaintFallback is stored as
fallback_value(d) ==
    IF d.fbk = "PredefValue" THEN PredefValue(d.fbv) ELSE ColorValue(d.fbv)

\* any_shape_element with its test inverted
any_shape_element_inverted(ns, ps) ==
    \E i \in 1..Len(ps) :
        ~(\/ is_tag_name(ns, ps[i], "mask")
          \/ is_tag_name(ns, ps[i], "clipPath")
          \/ is_tag_name(ns, ps[i], "marker"))

\* any_shape_element that looks at the parent only
any_shape_element_parent_only(ns, ps) ==
    /\ ps # <<>>
    /\ \/ is_tag_name(ns, ps[1], "mask")
       \/ is_tag_name(ns, ps[1], "clipPath")
       \/ is_tag_name(ns, ps[1], "marker")

\* d.node.parents().any(|n| mask, clipPath or marker)
any_shape_element(ns, ps) ==
    \E i \in 1..Len(ps) :
        \/ is_tag_name(ns, ps[i], "mask")
        \/ is_tag_name(ns, ps[i], "clipPath")
        \/ is_tag_name(ns, ps[i], "marker")

\* resolve_fallback that sets none on every attribute but `filter`
resolve_fallback_none_for_all(ns, d) ==
    IF d.fbk # ""
    THEN St(set_attribute(ns, d.node, d.attr_id, fallback_value(d)), <<>>, "none")
    ELSE CASE d.attr_id = "filter" ->
                IF is_tag_name(ns, d.node, "use")
                THEN St(ns, <<>>, "BrokenFuncIri")
                ELSE IF any_shape_element(ns, parents(ns, d.node))
                     THEN St(ns, <<>>, "none")
                     ELSE St(set_attribute(ns, d.node, "visibility",
                                           PredefValue("hidden")),
                             <<>>, "none")
           [] OTHER ->
                St(set_attribute(ns, d.node, d.attr_id, PredefValue("none")),
                   <<>>, "none")

\* resolve_fallback with the test of the ancestors before the test for `use`
resolve_fallback_ancestors_first(ns, d) ==
    IF d.fbk # ""
    THEN St(set_attribute(ns, d.node, d.attr_id, fallback_value(d)), <<>>, "none")
    ELSE CASE d.attr_id = "filter" ->
                IF any_shape_element(ns, parents(ns, d.node))
                THEN St(ns, <<>>, "none")
                ELSE IF is_tag_name(ns, d.node, "use")
                     THEN St(ns, <<>>, "BrokenFuncIri")
                     ELSE St(set_attribute(ns, d.node, "visibility",
                                           PredefValue("hidden")),
                             <<>>, "none")
           [] d.attr_id = "fill" ->
                St(set_attribute(ns, d.node, "fill", PredefValue("none")),
                   <<>>, "none")
           [] OTHER -> St(ns, <<>>, "none")

\* the `None` arm of resolve_fallback, taken whatever the fallback is
resolve_fallback_ignored(ns, d) ==
    CASE d.attr_id = "filter" ->
            IF is_tag_name(ns, d.node, "use")
            THEN St(ns, <<>>, "BrokenFuncIri")
            ELSE IF any_shape_element(ns, parents(ns, d.node))
                 THEN St(ns, <<>>, "none")
                 ELSE St(set_attribute(ns, d.node, "visibility",
                                       PredefValue("hidden")),
                         <<>>, "none")
      [] d.attr_id = "fill" ->
            St(set_attribute(ns, d.node, "fill", PredefValue("none")),
               <<>>, "none")
      [] OTHER -> St(ns, <<>>, "none")

\* resolve_fallback without its arm for AttributeId::Fill
resolve_fallback_no_fill(ns, d) ==
    IF d.fbk # ""
    THEN St(set_attribute(ns, d.node, d.attr_id, fallback_value(d)), <<>>, "none")
    ELSE CASE d.attr_id = "filter" ->
                IF is_tag_name(ns, d.node, "use")
                THEN St(ns, <<>>, "BrokenFuncIri")
                ELSE IF any_shape_element(ns, parents(ns, d.node))
                     THEN St(ns, <<>>, "none")
                     ELSE St(set_attribute(ns, d.node, "visibility",
                                           PredefValue("hidden")),
                             <<>>, "none")
           [] OTHER -> St(ns, <<>>, "none")

resolve_fallback(ns, d) ==
    IF d.fbk # ""
    THEN St(set_attribute(ns, d.node, d.attr_id, fallback_value(d)), <<>>, "none")
    ELSE CASE d.attr_id = "filter" ->
                IF is_tag_name(ns, d.node, "use")
                THEN St(ns, <<>>, "BrokenFuncIri")
                ELSE IF any_shape_element(ns, parents(ns, d.node))
                     THEN St(ns, <<>>, "none")
                     ELSE St(set_attribute(ns, d.node, "visibility",
                                           PredefValue("hidden")),
                             <<>>, "none")
           [] d.attr_id = "fill" ->
                St(set_attribute(ns, d.node, "fill", PredefValue("none")),
                   <<>>, "none")
           [] OTHER -> St(ns, <<>>, "none")

\* resolve_link that never reads opt.skip_paint_fallback
resolve_link_no_option(ns, pd, o, d) ==
    LET target == pd.elems_with_id[d.iri] IN
    IF target # NONE
    THEN IF d.fbk # ""
         THEN St(ns, <<>>, "UnsupportedPaintFallback")
         ELSE set_attribute_checked(ns, d.node, d.attr_id, target)
    ELSE resolve_fallback(ns, d)

\* one iteration of the loop of resolve_links, on entry d
resolve_link(ns, pd, o, d) ==
    LET target == pd.elems_with_id[d.iri] IN
    IF target # NONE
    THEN IF d.fbk # ""
         THEN IF o.skip_paint_fallback
              THEN set_attribute_checked(ns, d.node, d.attr_id, target)
              ELSE St(ns, <<>>, "UnsupportedPaintFallback")
         ELSE set_attribute_checked(ns, d.node, d.attr_id, target)
    ELSE resolve_fallback(ns, d)

----------------------------------------------------------------------------
(* parser/parser.rs: process_token *)

\* doc.children().nth(1).and_then(|n| n.children().svg().nth(0))
\* .and_then(|n| n.children().svg().nth(0))
and_then_first_svg(ns, c) ==
    IF c = NONE THEN NONE ELSE nth(svg(ns, children(ns, c)), 0)

first_svg_child(ns) == and_then_first_svg(ns, nth(children(ns, ROOT), 1))

\* if let Some((id, _)) = f { if id != ElementId::Svg { return Err(..) } }
some_not_svg(ns, f) ==
    IF f # NONE /\ ns[f].tag_name # "svg" THEN "NoSvgElement" ELSE "none"

\* the check that ends process_token, made while parsing root nodes
root_node_check(ns, parent) ==
    IF ns[parent].node_type = "Root"
    THEN some_not_svg(ns, first_svg_child(ns))
    ELSE "none"

\* Document::svg_element: the node of the Option, if its tag is svg
some_svg(ns, f) == IF f # NONE /\ ns[f].tag_name = "svg" THEN f ELSE NONE

\* Document::svg_element
svg_element(ns) == some_svg(ns, first_svg_child(ns))

\* is_inside_style_elem that does not look at the `type` attribute
is_inside_style_elem_any_type(ns, n) == is_tag_name(ns, n, "style")

is_inside_style_elem(ns, n) ==
    IF is_tag_name(ns, n, "style")
    THEN LET av == ns[n].attributes["type"]
         IN  ~(av.k = "String" /\ av.v # "text/css")
    ELSE FALSE

\* the test of an ENTITY text without trim()
starts_with_lt_untrimmed(text) == text \in {"<x/>"}

\* value.to_str().trim().starts_with("<"), for the ENTITY texts considered
trim_starts_with_lt(text) == text \in {"<x/>", " <x/>"}

\* the tokens of svg::Tokenizer
Token(t, name, value) == [t |-> t, name |-> name, value |-> value]

\* what process_token works on: the document's nodes, `node`, `parent`,
\* `post_data`, and the error it returns
PS(ns, n, p, pd, e) ==
    [nodes |-> ns, node |-> n, parent |-> p, post |-> pd, err |-> e]

\* the append of a created node that takes the root for `parent`
append_created_under_root(s, ns1) ==
    PS(append(ns1, ROOT, Len(ns1)), Len(ns1), s.parent, s.post, "none")

\* macro create_node!
\* *node = Some(e.clone()); parent.append(&e), e the node created last
append_created(s, ns1) ==
    PS(append(ns1, s.parent, Len(ns1)), Len(ns1), s.parent, s.post, "none")

\* macro create_node!
create_node_macro(s, node_type) ==
    append_created(s, create_node(s.nodes, node_type))

\* the attribute functions leave `node` and `parent` alone
with_cursors(s, r) == PS(r.nodes, s.node, s.parent, r.post, r.err)

\* ElementEnd::Close that ascends from the root as from any other node
element_end_close_from_root(s) ==
    IF s.nodes[s.parent].parent = NONE
    THEN [s EXCEPT !.err = "panic"]
    ELSE [s EXCEPT !.parent = s.nodes[s.parent].parent]

\* svg::ElementEnd::Close: parent.parent().unwrap() panics on None
element_end_close(s) ==
    IF s.parent # ROOT
    THEN IF s.nodes[s.parent].parent = NONE
         THEN [s EXCEPT !.err = "panic"]
         ELSE [s EXCEPT !.parent = s.nodes[s.parent].parent]
    ELSE s

\* the match of process_token on the token
match_token(s, o, tok) ==
    CASE tok.t = "ElementStart" ->
            append_created(s, create_element(s.nodes, tok.name))
      [] tok.t = "Attribute" ->
            IF tok.name \in XmlAttributeNames
            THEN IF o.parse_unknown_attributes
                 THEN IF is_svg_element(s.nodes, s.node)
                      THEN with_cursors(s,
                               parse_non_svg_attribute(s.nodes, s.post,
                                   s.node, tok.name, tok.value))
                      ELSE PS(set_attribute(s.nodes, s.node, tok.name,
                                            StringValue(tok.value)),
                              s.node, s.parent, s.post, "none")
                 ELSE s
            ELSE IF is_svg_element(s.nodes, s.node)
                 THEN with_cursors(s,
                          parse_svg_attribute(s.nodes, s.post, o, s.node,
                                              tok.name, tok.value))
                 ELSE s
      [] tok.t = "ElementEnd" /\ tok.name = "Empty" -> s
      [] tok.t = "ElementEnd" /\ tok.name = "Close" -> element_end_close(s)
      [] tok.t = "ElementEnd" /\ tok.name = "Open" ->
            IF s.node # NONE THEN [s EXCEPT !.parent = s.node] ELSE s
      [] tok.t \in {"Text", "Cdata"} ->
            IF is_inside_style_elem(s.nodes, s.parent)
            THEN [s EXCEPT !.post.css_list = Append(@, tok.value)]
            ELSE create_node_macro(s, tok.t)
      [] tok.t = "Whitespaces" ->
            IF /\ has_tag_id(s.nodes, s.parent)
               /\ s.nodes[s.parent].tag_name \in {"text", "tspan", "tref"}
            THEN create_node_macro(s, "Text")
            ELSE s
      [] tok.t = "Comment" ->
            IF o.parse_comments THEN create_node_macro(s, "Comment") ELSE s
      [] tok.t = "Declaration" ->
            IF o.parse_declarations THEN create_node_macro(s, "Declaration")
            ELSE s
      [] tok.t = "EntityDeclaration" ->
            IF trim_starts_with_lt(tok.value)
            THEN [s EXCEPT !.err = "UnsupportedEntity"]
            ELSE [s EXCEPT !.post.entitis[tok.name] = tok.value]
      [] tok.t = "ProcessingInstruction" -> s

\* the end of process_token, r the outcome of its match
end_of_token(r) ==
    IF r.err # "none" THEN r
    ELSE [r EXCEPT !.err = root_node_check(r.nodes, r.parent)]

process_token(s, o, tok) == end_of_token(match_token(s, o, tok))

\* the most nodes the token about to be processed may need
CanCreate == Len(nodes) < MaxNodes + 1

\* one turn of the loop `while let Some(token) = tokens.next()`
ProcessToken(tok, tk2) ==
    /\ pc = "tokens"
    /\ \E r \in {process_token(PS(nodes, cur_node, cur_parent, post, "none"),
                              opt, tok)} :
           /\ nodes' = r.nodes
           /\ cur_node' = r.node
           /\ cur_parent' = r.parent
           /\ post' = r.post
           /\ err' = r.err
           /\ pc' = IF r.err = "none" THEN "tokens" ELSE "error"
    /\ tk' = tk2
    /\ UNCHANGED <<opt, idx, log, iter, yielded, call>>

ElementStart(tag_name) ==
    /\ tk = "content" /\ CanCreate
    /\ ProcessToken(Token("ElementStart", tag_name, ""), "tag")

Attribute(name, value) ==
    /\ tk = "tag"
    /\ ProcessToken(Token("Attribute", name, value), "tag")

ElementEndEmpty ==
    /\ tk = "tag"
    /\ ProcessToken(Token("ElementEnd", "Empty", ""), "content")

ElementEndOpen ==
    /\ tk = "tag"
    /\ ProcessToken(Token("ElementEnd", "Open", ""), "content")

ElementEndClose ==
    /\ tk = "content"
    /\ ProcessToken(Token("ElementEnd", "Close", ""), "content")

\* Token::Text and Token::Cdata; character data occurs inside an element
TextOrCdata(node_type) ==
    /\ tk = "content" /\ cur_parent # ROOT
    /\ IF is_inside_style_elem(nodes, cur_parent)
       THEN Len(post.css_list) < MaxCss
       ELSE CanCreate
    /\ ProcessToken(Token(node_type, "", "css"), "content")

Whitespaces ==
    /\ tk = "content" /\ CanCreate
    /\ ProcessToken(Token("Whitespaces", "", " "), "content")

Comment ==
    /\ tk = "content" /\ (opt.parse_comments => CanCreate)
    /\ ProcessToken(Token("Comment", "", ""), "content")

Declaration ==
    /\ tk = "content" /\ (opt.parse_declarations => CanCreate)
    /\ ProcessToken(Token("Declaration", "", ""), "content")

EntityDeclaration(name, value) ==
    /\ tk = "content"
    /\ ProcessToken(Token("EntityDeclaration", name, value), "content")

ProcessingInstruction ==
    /\ tk = "content"
    /\ ProcessToken(Token("ProcessingInstruction", "", ""), "content")

\* `token?`: the tokenizer's own error ends the parse
TokenizerError ==
    /\ pc = "tokens"
    /\ pc' = "error"
    /\ err' = "Tokenizer"
    /\ UNCHANGED <<nodes, cur_node, cur_parent, post, opt, tk, idx,
                   log, iter, yielded, call>>

\* the token loop of parse_svg run on the tokens toks[i..], up to its end
\* or to the first error
RECURSIVE process_tokens(_, _, _, _)
process_tokens(s, o, toks, i) ==
    IF i > Len(toks) \/ s.err # "none" THEN s
    ELSE process_tokens(process_token(s, o, toks[i]), o, toks, i + 1)

----------------------------------------------------------------------------
(* parser/parser.rs: parse_svg after the token loop *)

\* the two checks that follow the token loop
\* match f { Some((id, _)) => if id != Svg { Err }, None => Err }
must_be_svg(ns, f) ==
    IF f = NONE THEN "NoSvgElement"
    ELSE IF ns[f].tag_name # "svg" THEN "NoSvgElement"
    ELSE "none"

\* check_document without its test for an empty document
check_document_no_empty_test(ns) == must_be_svg(ns, first_svg_child(ns))

check_document(ns) ==
    IF ~has_children(ns, ROOT) THEN "EmptyDocument"
    ELSE must_be_svg(ns, first_svg_child(ns))

\* the token stream ends: the document must have children, and an svg element
CheckDocument ==
    /\ pc = "tokens" /\ tk = "content"
    /\ log' = Append(log, "checks")
    /\ err' = check_document(nodes)
    /\ pc' = IF err' = "none" THEN "drain_style" ELSE "error"
    /\ UNCHANGED <<nodes, cur_node, cur_parent, post, opt, tk, idx,
                   iter, yielded, call>>

\* the predicate of the first drain, true only for children of the root
style_elements_top_level(ns) ==
    {n \in 1..Len(ns) : is_tag_name(ns, n, "style") /\ ns[n].parent = ROOT}

\* the nodes the two drain predicates of parse_svg hold for
style_elements(ns) == {n \in 1..Len(ns) : is_tag_name(ns, n, "style")}
unknown_elements(ns) ==
    {n \in 1..Len(ns) : ns[n].node_type = "Element" /\ ~has_tag_id(ns, n)}

\* doc.drain(|n| n.is_tag_name(ElementId::Style))
DrainStyle ==
    /\ pc = "drain_style"
    /\ nodes' = drain(nodes, style_elements(nodes)).ns
    /\ pc' = "drain_unknown"
    /\ log' = Append(log, "drain_style")
    /\ UNCHANGED <<cur_node, cur_parent, post, opt, tk, err, idx,
                   iter, yielded, call>>

\* if !opt.parse_unknown_elements { doc.drain(..) }
DrainUnknown ==
    /\ pc = "drain_unknown"
    /\ nodes' = IF ~opt.parse_unknown_elements
                THEN drain(nodes, unknown_elements(nodes)).ns
                ELSE nodes
    /\ pc' = "css"
    /\ log' = Append(log, "drain_unknown")
    /\ UNCHANGED <<cur_node, cur_parent, post, opt, tk, err, idx,
                   iter, yielded, call>>

\* css::resolve_css: it can fail only on a style sheet
ResolveCss ==
    /\ pc = "css"
    /\ log' = Append(log, "css")
    /\ \E ok \in (IF post.css_list = <<>> THEN {TRUE} ELSE BOOLEAN) :
          /\ err' = IF ok \/ opt.skip_invalid_css THEN err ELSE "Css"
          /\ pc' = IF ok \/ opt.skip_invalid_css THEN "style" ELSE "error"
    /\ idx' = 1
    /\ UNCHANGED <<nodes, cur_node, cur_parent, post, opt, tk, iter, yielded, call>>

\* for d in &mut post_data.style_attrs { parse_style_attribute(..)? }
StyleStep ==
    /\ pc = "style"
    /\ log' = IF idx = 1 THEN Append(log, "style") ELSE log
    /\ IF idx > Len(post.style_attrs)
       THEN /\ pc' = "links"
            /\ idx' = 1
            /\ UNCHANGED <<nodes, post, err>>
       ELSE \E r \in {parse_style_attribute(nodes, post, opt,
                                              post.style_attrs[idx].node,
                                              post.style_attrs[idx].span)} :
                /\ nodes' = r.nodes
                /\ post' = r.post
                /\ idx' = idx + 1
                /\ err' = r.err
                /\ pc' = IF r.err = "none" THEN pc ELSE "error"
    /\ UNCHANGED <<cur_node, cur_parent, opt, tk, iter, yielded, call>>

\* resolve_links: for d in &mut links.list { .. }
LinkStep ==
    /\ pc = "links"
    /\ log' = IF idx = 1 THEN Append(log, "links") ELSE log
    /\ IF idx > Len(post.links)
       THEN /\ pc' = "text"
            /\ idx' = 1
            /\ UNCHANGED <<nodes, err>>
       ELSE \E r \in {resolve_link(nodes, post, opt, post.links[idx])} :
                /\ nodes' = r.nodes
                /\ idx' = idx + 1
                /\ err' = r.err
                /\ pc' = IF r.err = "none" THEN pc ELSE "error"
    /\ UNCHANGED <<cur_node, cur_parent, post, opt, tk, iter, yielded, call>>

\* text::prepare_text run also after an error was returned
PrepareTextAfterError ==
    /\ pc \in {"text", "error"}
    /\ pc' = "done"
    /\ log' = Append(log, "text")
    /\ UNCHANGED <<nodes, cur_node, cur_parent, post, opt, tk, err,
                   idx, iter, yielded, call>>

\* text::prepare_text(&mut doc); Ok(doc)
PrepareText ==
    /\ pc = "text"
    /\ pc' = "done"
    /\ log' = Append(log, "text")
    /\ UNCHANGED <<nodes, cur_node, cur_parent, post, opt, tk, err,
                   idx, iter, yielded, call>>

\* the statements of parse_svg that follow its token loop
AfterTokens ==
    \/ CheckDocument
    \/ DrainStyle
    \/ DrainUnknown
    \/ ResolveCss
    \/ StyleStep
    \/ LinkStep
    \/ PrepareText

----------------------------------------------------------------------------
(* The parse of a document: its structure *)

DefaultOptions ==
    [parse_unknown_elements |-> TRUE, parse_unknown_attributes |-> TRUE,
     parse_comments |-> TRUE, parse_declarations |-> TRUE,
     parse_px_unit |-> TRUE, skip_invalid_attributes |-> FALSE,
     skip_invalid_css |-> FALSE, skip_paint_fallback |-> FALSE]

\* parse_svg up to its token loop
ParseStart(o) ==
    /\ nodes = new_document
    /\ cur_node = NONE
    /\ cur_parent = ROOT
    /\ post = new_post_data
    /\ opt = o
    /\ tk = "content"
    /\ pc = "tokens"
    /\ err = "none"
    /\ idx = 1
    /\ log = <<>>
    /\ iter = NoIter
    /\ yielded = <<>>
    /\ call = NoCall

\* the element names of the documents considered; "foreign" is no ElementId
TreeTags == {"svg", "g", "style", "foreign"}

TreeOptions ==
    {[DefaultOptions EXCEPT !.parse_unknown_elements = u, !.parse_comments = c,
                            !.parse_declarations = d, !.skip_invalid_css = s] :
        u \in BOOLEAN, c \in BOOLEAN, d \in BOOLEAN, s \in BOOLEAN}

Init == \E o \in TreeOptions : ParseStart(o)

Next ==
    \/ \E t \in TreeTags : ElementStart(t)
    \/ ElementEndEmpty
    \/ ElementEndOpen
    \/ ElementEndClose
    \/ TextOrCdata("Text")
    \/ Comment
    \/ Declaration
    \/ EntityDeclaration("e", "<x/>")
    \/ ProcessingInstruction
    \/ AfterTokens

Spec == Init /\ [][Next]_vars

----------------------------------------------------------------------------
(* The parse of a document with references: the document                   *)
(*   <g/><g><svg><rect/><linearGradient id="a"/><use/>                     *)
(*       <mask><g><rect/><use/></g></mask></svg></g>                       *)
(* with attributes added to its rect and use elements.  The token loop of  *)
(* parse_svg has consumed the document; the state is the one it leaves.    *)

\* the elements in document order: the tag, the attributes the document
\* gives it, how its start tag ends, and the end tags that follow it
Element(tag, attrs, end, closes) ==
    [tag |-> tag, attrs |-> attrs, end |-> end, closes |-> closes]

IdA == <<Token("Attribute", "id", "a")>>

Skeleton ==
    <<Element("g", <<>>, "Empty", 0),
      Element("g", <<>>, "Open", 0),
      Element("svg", <<>>, "Open", 0),
      Element("rect", <<>>, "Empty", 0),
      Element("linearGradient", IdA, "Empty", 0),
      Element("use", <<>>, "Empty", 0),
      Element("mask", <<>>, "Open", 0),
      Element("g", <<>>, "Open", 0),
      Element("rect", <<>>, "Empty", 0),
      Element("use", <<>>, "Empty", 4)>>

\* the nodes of the skeleton that are given attributes: a rect before the
\* gradient, a use, and a rect and a use inside the mask
\* element k of the skeleton is the k-th node created after the root
NodeOf(k) == ROOT + k
RectNode == NodeOf(4)
GradientNode == NodeOf(5)
AttrNodes == {RectNode, NodeOf(6), NodeOf(9), NodeOf(10)}

\* an attribute of the document: the node whose start tag holds it
DocAttr(node, name, value) == [node |-> node, name |-> name, value |-> value]

RECURSIVE closing_tags(_)
closing_tags(k) ==
    IF k = 0 THEN <<>>
    ELSE <<Token("ElementEnd", "Close", "")>> \o closing_tags(k - 1)

\* the Attribute tokens of the attributes as[i..] that node n holds
RECURSIVE attr_tokens(_, _, _)
attr_tokens(as, n, i) ==
    IF i > Len(as) THEN <<>>
    ELSE (IF as[i].node = n
          THEN <<Token("Attribute", as[i].name, as[i].value)>>
          ELSE <<>>) \o attr_tokens(as, n, i + 1)

\* the tokens of the elements k.. of the skeleton
RECURSIVE doc_tokens(_, _)
doc_tokens(as, k) ==
    IF k > Len(Skeleton) THEN <<>>
    ELSE <<Token("ElementStart", Skeleton[k].tag, "")>>
         \o Skeleton[k].attrs
         \o attr_tokens(as, NodeOf(k), 1)
         \o <<Token("ElementEnd", Skeleton[k].end, "")>>
         \o closing_tags(Skeleton[k].closes)
         \o doc_tokens(as, k + 1)

\* the state in which the token loop of parse_svg leaves s
AfterTokenLoop(s, o) ==
    /\ nodes = s.nodes
    /\ cur_node = s.node
    /\ cur_parent = s.parent
    /\ post = s.post
    /\ opt = o
    /\ tk = "content"
    /\ pc = IF s.err = "none" THEN "tokens" ELSE "error"
    /\ err = s.err
    /\ idx = 1
    /\ log = <<>>
    /\ iter = NoIter
    /\ yielded = <<>>
    /\ call = NoCall

\* parse_svg up to the end of its token loop, on the document with
\* attributes as
ParsedDocument(as, o) ==
    AfterTokenLoop(
        process_tokens(PS(new_document, NONE, ROOT, new_post_data, "none"),
                       o, doc_tokens(as, 1), 1),
        o)

\* the references of the documents considered: paints on the rect before
\* the gradient and on the rect after it, filters on every node of AttrNodes
\* and on the g that is a child of the mask
PaintNodes == {RectNode, NodeOf(9)}
FilterNodes == AttrNodes \cup {NodeOf(8)}

LinkAttrs ==
    {DocAttr(n, "fill", v) :
        n \in PaintNodes,
        v \in {"url(#a)", "url(#m)", "url(#a) red", "url(#m) red",
               "url(#m) none"}}
    \cup {DocAttr(n, "stroke", v) :
        n \in PaintNodes, v \in {"url(#a)", "url(#m)", "url(#m) red"}}
    \cup {DocAttr(n, "filter", v) :
        n \in FilterNodes, v \in {"url(#a)", "url(#m)"}}

LinkAttrSeqs == UNION {[1..k -> LinkAttrs] : k \in 0..MaxLinks}

LinkOptions ==
    {[DefaultOptions EXCEPT !.skip_paint_fallback = f] : f \in BOOLEAN}

InitLinks ==
    \E as \in LinkAttrSeqs : \E o \in LinkOptions : ParsedDocument(as, o)

SpecLinks == InitLinks /\ [][AfterTokens]_vars

\* the documents with one `fill` attribute and one `style` attribute that
\* declares `fill`, on the same element
PlainFillTexts == {"red", "url(#a)", "url(#m)"}
StyleFillTexts == {"fill:red", "fill:url(#a)", "fill:url(#m)"}

InitStyle ==
    \E n \in AttrNodes : \E p \in PlainFillTexts : \E st \in StyleFillTexts :
        ParsedDocument(<<DocAttr(n, "fill", p), DocAttr(n, "style", st)>>,
                       DefaultOptions)

SpecStyle == InitStyle /\ [][AfterTokens]_vars

----------------------------------------------------------------------------
(* The token pass over documents with attributes and entities: ENTITY      *)
(* declarations, then `g` elements with attributes.                        *)

\* the ENTITY texts: two with markup, one without
EntityTexts == {"<x/>", " <x/>", "red"}

\* the attributes: an id, references to the entity e under a known and
\* under a foreign name, and values that do not parse
AttrTokens ==
    {<<"id", "a">>, <<"fill", "&e;">>, <<"data-x", "&e;">>,
     <<"fill", "bad">>, <<"transform", "bad">>, <<"d", "bad">>,
     <<"stroke-dasharray", "5 x">>}

AttrOptions ==
    {[DefaultOptions EXCEPT !.skip_invalid_attributes = s,
                            !.parse_unknown_attributes = u] :
        s \in BOOLEAN, u \in BOOLEAN}

InitAttrs == \E o \in AttrOptions : ParseStart(o)

\* the declarations of a document precede its elements
NextAttrs ==
    \/ \E v \in EntityTexts : Len(nodes) = 1 /\ EntityDeclaration("e", v)
    \/ ElementStart("g")
    \/ \E a \in AttrTokens : Attribute(a[1], a[2])
    \/ ElementEndEmpty
    \/ CheckDocument

SpecAttrs == InitAttrs /\ [][NextAttrs]_vars

----------------------------------------------------------------------------
(* The parse of documents that refer to the entity e: the document of      *)
(* SpecLinks, in which the first rect has fill="&e;" and data-x="&e;",     *)
(* with or without <!ENTITY e "red"> before its elements, and with at most *)
(* one `filter` attribute.                                                 *)

\* the tokens that precede the elements: the declaration of e, if any
EntityProlog ==
    {<<>>, <<Token("EntityDeclaration", "e", "red")>>}

EntityRefAttrs ==
    <<DocAttr(RectNode, "fill", "&e;"), DocAttr(RectNode, "data-x", "&e;")>>

FilterAttrSeqs ==
    {<<>>} \cup {<<DocAttr(n, "filter", v)>> :
                    n \in FilterNodes, v \in {"url(#a)", "url(#m)"}}

\* parse_svg up to the end of its token loop, on the tokens toks
ParsedTokens(toks, o) ==
    AfterTokenLoop(
        process_tokens(PS(new_document, NONE, ROOT, new_post_data, "none"),
                       o, toks, 1),
        o)

InitEntity ==
    \E p \in EntityProlog : \E fs \in FilterAttrSeqs : \E o \in AttrOptions :
        ParsedTokens(p \o doc_tokens(EntityRefAttrs \o fs, 1), o)

SpecEntity == InitEntity /\ [][AfterTokens]_vars

----------------------------------------------------------------------------
(* The parse of a document with style elements and unknown elements: the   *)
(* document <g/><g><svg> .. </svg></g>, the content of its svg element any *)
(* tree of up to MaxNodes elements named g, style or foreign.              *)

PruneTags == {"g", "style", "foreign"}

\* the content in document order: the depth of each element below svg,
\* and its tag
ContentDepths ==
    UNION {{d \in [1..k -> 1..k] :
               /\ k >= 1 => d[1] = 1
               /\ \A i \in 1..(k - 1) : d[i + 1] <= d[i] + 1} :
              k \in 0..MaxNodes}
ContentTags(d) == [1..Len(d) -> PruneTags]

\* the depth of the element that follows element i, or of the end of svg
depth_after(d, i) == IF i < Len(d) THEN d[i + 1] ELSE 1

\* the tokens of the elements i.. of the content
RECURSIVE content_tokens(_, _, _)
content_tokens(d, t, i) ==
    IF i > Len(d) THEN <<>>
    ELSE <<Token("ElementStart", t[i], "")>>
         \o (IF depth_after(d, i) > d[i]
             THEN <<Token("ElementEnd", "Open", "")>>
             ELSE <<Token("ElementEnd", "Empty", "")>>
                      \o closing_tags(d[i] - depth_after(d, i)))
         \o content_tokens(d, t, i + 1)

\* <g/><g><svg> content </svg></g>
wrapped_tokens(d, t) ==
    <<Token("ElementStart", "g", ""), Token("ElementEnd", "Empty", ""),
      Token("ElementStart", "g", ""), Token("ElementEnd", "Open", ""),
      Token("ElementStart", "svg", ""), Token("ElementEnd", "Open", "")>>
        \o content_tokens(d, t, 1) \o closing_tags(2)

PruneOptions ==
    {[DefaultOptions EXCEPT !.parse_unknown_elements = u] : u \in BOOLEAN}

InitPrune ==
    \E d \in ContentDepths : \E t \in ContentTags(d) : \E o \in PruneOptions :
        ParsedTokens(wrapped_tokens(d, t), o)

SpecPrune == InitPrune /\ [][AfterTokens]_vars

----------------------------------------------------------------------------
(* Iteration over a document: a caller holds a Traverse started at a node  *)
(* of a tree, or a LinkedNodes over a referrer list, and calls next().     *)

\* a tree is given by the parent of each node but the root: node i + 1 is
\* appended to the node pv[i], which was created before it
ParentVectors ==
    UNION {{pv \in [1..k -> 1..k] : \A i \in 1..k : pv[i] <= i} :
              k \in 0..MaxNodes}

\* the document in which the elements pv[i..] of the tree are still to be
\* created and appended
RECURSIVE build_tree(_, _, _)
build_tree(ns, pv, i) ==
    IF i > Len(pv) THEN ns
    ELSE build_tree(append(create_element(ns, "g"), pv[i], Len(ns) + 1),
                    pv, i + 1)

\* the referrer lists over the nodes of a document of n nodes; NONE is an
\* entry whose weak link has expired
ReferrerLists(n) ==
    UNION {[1..m -> {NONE} \cup (2..n)] : m \in 0..MaxLinks}

\* the trees of the documents iterated over: a tree built by appends, one
\* of its nodes detached with its subtree or none
DetachedOne(ns) ==
    {ns} \cup {detach(ns, d) : d \in 2..Len(ns)}
IterTrees ==
    UNION {DetachedOne(build_tree(new_document, pv, 1)) :
              pv \in ParentVectors}

\* a caller holds the iterator it over the document ns
Iterating(ns, it, c) ==
    /\ nodes = ns
    /\ cur_node = NONE
    /\ cur_parent = ROOT
    /\ post = new_post_data
    /\ opt = DefaultOptions
    /\ tk = "content"
    /\ pc = "done"
    /\ err = "none"
    /\ idx = 1
    /\ log = <<>>
    /\ iter = it
    /\ yielded = <<>>
    /\ call = c

InitIter ==
    \E ns \in IterTrees :
        \/ \E r \in 1..Len(ns) :
              Iterating(ns, new_traverse(r), Called("Traverse::new", r))
        \/ \E n \in 1..Len(ns) :
              Iterating(ns, new_parents(n), Called("Parents::new", n))
        \/ \E data \in ReferrerLists(Len(ns)) :
              Iterating(ns, new_linked_nodes(data),
                        Called("LinkedNodes::new", data))

\* the calls of next() that returned None
Idle == Len(SelectSeq(yielded, LAMBDA x : x = None))

\* a call of Traverse::next
TraverseNext ==
    /\ iter.kind = "Traverse"
    /\ Idle < MaxIdle
    /\ \E r \in {traverse_next(nodes, iter)} :
          /\ iter' = r.iter
          /\ yielded' = Append(yielded, r.item)
    /\ UNCHANGED <<nodes, cur_node, cur_parent, post, opt, tk, pc, err, idx,
                   log, call>>

\* a call of LinkedNodes::next
LinkedNodesNext ==
    /\ iter.kind = "LinkedNodes"
    /\ iter.idx < Len(iter.data) + MaxIdle
    /\ \E r \in {linked_nodes_next(iter)} :
          /\ iter' = r.iter
          /\ yielded' = Append(yielded, r.item)
    /\ UNCHANGED <<nodes, cur_node, cur_parent, post, opt, tk, pc, err, idx,
                   log, call>>

\* a call of Parents::next
ParentsNext ==
    /\ iter.kind = "Parents"
    /\ Idle < MaxIdle
    /\ \E r \in {parents_next(nodes, iter)} :
          /\ iter' = r.iter
          /\ yielded' = Append(yielded, r.item)
    /\ UNCHANGED <<nodes, cur_node, cur_parent, post, opt, tk, pc, err, idx,
                   log, call>>

NextIter == TraverseNext \/ ParentsNext \/ LinkedNodesNext

SpecIter == InitIter /\ [][NextIter]_vars

----------------------------------------------------------------------------
(* The node tree under the calls of its user: nodes are created, appended, *)
(* detached and drained in any order.                                      *)

\* what a call returned, or that it panicked
Returned(op, arg, value) ==
    [op |-> op, arg |-> arg, panic |-> FALSE, value |-> value]
Panicked(op, arg) == [op |-> op, arg |-> arg, panic |-> TRUE, value |-> NONE]
\* p.append(&c) returned; c was a child of the node from, or of none
Moved(p, c, from) ==
    [op |-> "append", arg |-> <<p, c>>, panic |-> FALSE, value |-> c,
     from |-> from]

\* the parent of n, its parent and so on, in the nodes ns
RECURSIVE AncestorsIn(_, _)
AncestorsIn(ns, n) ==
    IF ns[n].parent = NONE THEN {}
    ELSE {ns[n].parent} \cup AncestorsIn(ns, ns[n].parent)

\* the tag names handed to create_element and the node types handed to
\* create_node
DomTagNames == {"g", ""}
DomNodeTypes == {"Comment"}

\* the caller's other state does not change
DomFrame ==
    UNCHANGED <<cur_node, cur_parent, post, opt, tk, pc, err, idx, log, iter,
                yielded>>

\* doc.create_element(tag_name)
CreateElement(tag_name) ==
    /\ CanCreate
    /\ IF create_element_panics(tag_name)
       THEN /\ nodes' = nodes
            /\ call' = Panicked("create_element", tag_name)
       ELSE /\ nodes' = create_element(nodes, tag_name)
            /\ call' = Returned("create_element", tag_name, Len(nodes'))
    /\ DomFrame

\* doc.create_node(node_type, text), for a node type that passes the
\* debug_assert
CreateNode(node_type) ==
    /\ CanCreate
    /\ nodes' = create_node(nodes, node_type)
    /\ call' = Returned("create_node", node_type, Len(nodes'))
    /\ DomFrame

\* p.append(&c); doc.append(&c) is the call with p = ROOT.  The root is not
\* appended, nor a node to itself or to a node below it: the nodes stay
\* trees.
AppendNode(p, c) ==
    /\ c # ROOT
    /\ c # p
    /\ c \notin AncestorsIn(nodes, p)
    /\ nodes' = append(nodes, p, c)
    /\ call' = Moved(p, c, nodes[c].parent)
    /\ DomFrame

\* n.detach()
DetachNode(n) ==
    /\ nodes' = detach(nodes, n)
    /\ call' = Returned("detach", n, NONE)
    /\ DomFrame

\* doc.drain(f), M the nodes f holds for
Drain(M) ==
    /\ \E r \in {drain(nodes, M)} :
          /\ nodes' = r.ns
          /\ call' = Returned("drain", M, r.count)
    /\ DomFrame

InitDom == Iterating(new_document, NoIter, NoCall)

\* the nodes the predicates handed to drain hold for: the nodes of one
\* type, or all nodes
MatchSets(ns) ==
    {{n \in 1..Len(ns) : ns[n].node_type = t} : t \in {"Element", "Comment"}}
        \cup {1..Len(ns)}

NextDom ==
    \/ \E tag_name \in DomTagNames : CreateElement(tag_name)
    \/ \E node_type \in DomNodeTypes : CreateNode(node_type)
    \/ \E p \in 1..Len(nodes) : \E c \in 1..Len(nodes) : AppendNode(p, c)
    \/ \E n \in 1..Len(nodes) : DetachNode(n)
    \/ \E M \in MatchSets(nodes) : Drain(M)

SpecDom == InitDom /\ [][NextDom]_vars

\* doc.drain(f) on any tree, one of its subtrees detached or none, for any
\* predicate f
InitDrain == \E ns \in IterTrees : Iterating(ns, NoIter, NoCall)

NextDrain == \E M \in SUBSET (1..Len(nodes)) : call.op = "none" /\ Drain(M)

SpecDrain == InitDrain /\ [][NextDrain]_vars

----------------------------------------------------------------------------
(* Calls on an Attribute: is_presentation and write_buf_opt. *)

\* the attributes asked whether they are presentation attributes
AskedAttributes ==
    {AttributeOf(id, StringValue("x"), visible) :
        id \in KnownAttributeIds, visible \in BOOLEAN}

\* the lists written
ItemLists == UNION {[1..k -> {5, 10}] : k \in 0..MaxItems}
\* the attributes written
WrittenAttributes ==
    {AttributeOf("stroke-dasharray", LengthListOf(l), TRUE) : l \in ItemLists}
        \cup {AttributeOf("stroke-dasharray", NumberListOf(l), TRUE) :
                 l \in ItemLists}
        \cup {AttributeOf("stroke-dasharray", PredefValue("none"), TRUE)}
AllWriteOptions ==
    {WriteOptionsOf(q, s) : q \in BOOLEAN, s \in ListSeparators}

\* attr.write_buf_opt(&wopt, &mut buf) returned, buf empty before
Wrote(attr, wopt, buf) ==
    [op |-> "write_buf_opt", arg |-> attr, opt |-> wopt, panic |-> FALSE,
     value |-> buf]

\* attr.is_presentation()
IsPresentation(attr) ==
    /\ call' = Returned("is_presentation", attr, is_presentation(attr))
    /\ UNCHANGED nodes
    /\ DomFrame

\* attr.write_buf_opt(&wopt, &mut buf)
WriteBufOpt(attr, wopt) ==
    /\ call' = Wrote(attr, wopt, write_buf_opt(attr, wopt))
    /\ UNCHANGED nodes
    /\ DomFrame

InitAttribute == Iterating(new_document, NoIter, NoCall)

NextAttribute ==
    \/ \E attr \in AskedAttributes : IsPresentation(attr)
    \/ \E attr \in WrittenAttributes : \E wopt \in AllWriteOptions :
          WriteBufOpt(attr, wopt)

SpecAttribute == InitAttribute /\ [][NextAttribute]_vars

----------------------------------------------------------------------------
(* Claims about the structure of a parsed document, checked under Spec *)

\* the children of the root that are SVG elements
root_svg_elements(ns) == svg(ns, children(ns, ROOT))
\* no token of the stream started an element
NoElementCreated == \A n \in 1..Len(nodes) : nodes[n].node_type # "Element"
\* the token loop ended without an error and the checks after it ran
ChecksRan == log # <<>>

\* C1: when parse_svg returns a document, its root has type Root, no
\* parent, no siblings and at least one child.
C1_ReturnedRootHasChild ==
    pc = "done" =>
        /\ nodes[ROOT].node_type = "Root"
        /\ nodes[ROOT].parent = NONE
        /\ nodes[ROOT].prev_sibling = NONE
        /\ nodes[ROOT].next_sibling = NONE
        /\ has_children(nodes, ROOT)

\* C2: a document whose only top-level node is one svg element does not
\* fail with NoSvgElement.
C2_SingleSvgPasses ==
    (/\ ChecksRan
     /\ Len(children(nodes, ROOT)) = 1
     /\ is_tag_name(nodes, nodes[ROOT].first_child, "svg"))
        => err # "NoSvgElement"

\* C3: a document whose first element under the root is not svg never gets
\* past the checks that follow the token loop.
C3_FirstElementMustBeSvg ==
    pc = "drain_style" =>
        /\ root_svg_elements(nodes) # <<>>
        /\ nodes[root_svg_elements(nodes)[1]].tag_name = "svg"

\* C4, as stated: a token stream that produces no element fails with
\* EmptyDocument.
C4_NoElementIsEmptyDocument ==
    (ChecksRan /\ NoElementCreated) => err = "EmptyDocument"

\* C4, amended: a token stream that produces no element fails with
\* EmptyDocument when it attached no node under the root, and with
\* NoSvgElement when it attached a declaration, comment or text node.
C4_NoElementFails ==
    (ChecksRan /\ NoElementCreated) =>
        /\ pc = "error"
        /\ err = IF has_children(nodes, ROOT) THEN "NoSvgElement"
                 ELSE "EmptyDocument"

\* C4's case: a stream whose only node is a declaration has been checked
C4_Witness ==
    /\ ChecksRan
    /\ NoElementCreated
    /\ Len(nodes) = 2
    /\ nodes[2].node_type = "Declaration"
    /\ nodes[ROOT].first_child = 2
    /\ err = "NoSvgElement"

\* the children of the root whose tag is svg, first to last
RootSvgChildren ==
    SelectSeq(children(nodes, ROOT), LAMBDA n : nodes[n].tag_name = "svg")

\* C18: Document::svg_element returns the first child of the root whose
\* tag is svg, and nothing only if there is none; a document whose root
\* has the children [comment, svg] passes the checks of parse_svg.
C18_SvgElementFirstRootSvg ==
    /\ svg_element(nodes) =
          IF RootSvgChildren = <<>> THEN NONE ELSE RootSvgChildren[1]
    /\ (/\ ChecksRan
        /\ Len(children(nodes, ROOT)) = 2
        /\ nodes[children(nodes, ROOT)[1]].node_type = "Comment"
        /\ nodes[children(nodes, ROOT)[2]].tag_name = "svg") => err = "none"

----------------------------------------------------------------------------
(* Claims about link resolution, checked under SpecLinks *)

\* resolve_links is about to work on the entry post.links[idx]
Resolving == pc = "links" /\ idx <= Len(post.links)
CurLink == post.links[idx]
\* resolve_links has just worked on the entry post.links[idx - 1]
Resolved ==
    /\ pc \in {"links", "error"}
    /\ log # <<>> /\ log[Len(log)] = "links"
    /\ idx > 1
PrevLink == post.links[idx - 1]
\* the elements of the document that declare the id iri
Declaring(iri) == {n \in 1..Len(nodes) : nodes[n].id = iri}
\* the ancestors of node n, by its chain of parent fields
RECURSIVE Ancestors(_)
Ancestors(n) ==
    IF nodes[n].parent = NONE THEN {}
    ELSE {nodes[n].parent} \cup Ancestors(nodes[n].parent)
ShapeTags == {"mask", "clipPath", "marker"}
\* the value of attribute aid on node n
AttrOf(n, aid) == nodes[n].attributes[aid]

\* C5: resolving a link without fallback whose target id an element of the
\* document declares, before or after the referencing attribute, makes the
\* attribute a Link to an element that declares the id.
C5_DeclaredTargetLinks ==
    [][(Resolving /\ CurLink.fbk = "" /\ Declaring(CurLink.iri) # {}) =>
          /\ \E t \in Declaring(CurLink.iri) :
                nodes'[CurLink.node].attributes[CurLink.attr_id] = LinkValue(t)
          /\ err' = "none"]_vars

\* C5's case: a reference made before the declaration of its target has
\* been resolved to the declaring element
C5_Witness ==
    /\ Resolved
    /\ PrevLink.fbk = ""
    /\ \E t \in Declaring(PrevLink.iri) :
          /\ PrevLink.node < t
          /\ AttrOf(PrevLink.node, PrevLink.attr_id) = LinkValue(t)

\* C7: resolving a link with a paint fallback whose target is found fails
\* with UnsupportedPaintFallback when skip_paint_fallback is off; when it is
\* on there is no error, the attribute becomes a Link to the target and the
\* fallback is not written.
C7_FoundTargetWithFallback ==
    [][(Resolving /\ CurLink.fbk # ""
          /\ post.elems_with_id[CurLink.iri] # NONE) =>
          IF opt.skip_paint_fallback
          THEN /\ err' = "none" /\ pc' = "links"
               /\ nodes'[CurLink.node].attributes[CurLink.attr_id]
                     = LinkValue(post.elems_with_id[CurLink.iri])
               /\ nodes'[CurLink.node].attributes[CurLink.attr_id].k
                     \notin {"Color", "PredefValue"}
          ELSE /\ err' = "UnsupportedPaintFallback" /\ pc' = "error"
               /\ nodes' = nodes]_vars

\* C7's case: with skip_paint_fallback on, a link with a fallback and a
\* found target has been resolved
C7_Witness ==
    /\ Resolved
    /\ opt.skip_paint_fallback
    /\ PrevLink.fbk = "Color"
    /\ Declaring(PrevLink.iri) # {}
    /\ AttrOf(PrevLink.node, PrevLink.attr_id).k = "Link"
    /\ err = "none"

\* C8: resolving a link with a paint fallback whose target id is not in the
\* index sets the attribute to the fallback, keyword or color, without an
\* error, whatever the attribute is.
C8_MissingTargetTakesFallback ==
    [][(Resolving /\ CurLink.fbk # ""
          /\ post.elems_with_id[CurLink.iri] = NONE) =>
          /\ nodes'[CurLink.node].attributes[CurLink.attr_id]
                = [k |-> CurLink.fbk, v |-> CurLink.fbv, n |-> NONE]
          /\ err' = "none" /\ pc' = "links"]_vars

\* C8's case: an unresolved `fill` with the fallback color has been resolved
C8_Witness ==
    /\ Resolved
    /\ PrevLink.attr_id = "fill"
    /\ PrevLink.fbk = "Color"
    /\ post.elems_with_id[PrevLink.iri] = NONE
    /\ AttrOf(PrevLink.node, "fill") = ColorValue(PrevLink.fbv)

\* C9: resolving a `fill` link without fallback whose target id is not in
\* the index sets `fill` to the predefined value none, without an error.
C9_UnresolvedFillIsNone ==
    [][(Resolving /\ CurLink.attr_id = "fill" /\ CurLink.fbk = ""
          /\ post.elems_with_id[CurLink.iri] = NONE) =>
          /\ nodes'[CurLink.node].attributes["fill"] = PredefValue("none")
          /\ err' = "none" /\ pc' = "links"]_vars

\* C9's case: an unresolved `fill` without fallback has been resolved
C9_Witness ==
    /\ Resolved
    /\ PrevLink.attr_id = "fill" /\ PrevLink.fbk = ""
    /\ post.elems_with_id[PrevLink.iri] = NONE
    /\ AttrOf(PrevLink.node, "fill") = PredefValue("none")
    /\ err = "none"

\* C10: resolving a `filter` link without fallback and with an unresolved
\* target, on a node that is not a `use` element and has no mask, clipPath
\* or marker ancestor, sets `visibility` to hidden on the node, changes no
\* other attribute, `filter` included, and reports no error.
C10_UnresolvedFilterHides ==
    [][(Resolving /\ CurLink.attr_id = "filter" /\ CurLink.fbk = ""
          /\ post.elems_with_id[CurLink.iri] = NONE
          /\ nodes[CurLink.node].tag_name # "use"
          /\ \A a \in Ancestors(CurLink.node) :
                nodes[a].tag_name \notin ShapeTags) =>
          /\ nodes' = [nodes EXCEPT ![CurLink.node].attributes["visibility"]
                                        = PredefValue("hidden")]
          /\ err' = "none" /\ pc' = "links"]_vars

\* C10's case: an unresolved `filter` on the rect outside the mask has been
\* resolved
C10_Witness ==
    /\ Resolved
    /\ PrevLink.attr_id = "filter" /\ PrevLink.fbk = ""
    /\ post.elems_with_id[PrevLink.iri] = NONE
    /\ PrevLink.node = RectNode
    /\ Ancestors(RectNode) # {}
    /\ AttrOf(RectNode, "visibility") = PredefValue("hidden")
    /\ AttrOf(RectNode, "filter") = Absent
    /\ err = "none"

\* C11: resolving a `filter` link without fallback and with an unresolved
\* target, on a node that is not a `use` element and has a mask, clipPath
\* or marker among its ancestors at any depth, changes no attribute of any
\* node and reports no error.
C11_UnresolvedFilterInShapeKept ==
    [][(Resolving /\ CurLink.attr_id = "filter" /\ CurLink.fbk = ""
          /\ post.elems_with_id[CurLink.iri] = NONE
          /\ nodes[CurLink.node].tag_name # "use"
          /\ \E a \in Ancestors(CurLink.node) :
                nodes[a].tag_name \in ShapeTags) =>
          /\ nodes' = nodes
          /\ err' = "none" /\ pc' = "links"]_vars

\* C11's case: an unresolved `filter` on the rect whose grandparent is the
\* mask has been resolved
C11_Witness ==
    /\ Resolved
    /\ PrevLink.attr_id = "filter" /\ PrevLink.fbk = ""
    /\ post.elems_with_id[PrevLink.iri] = NONE
    /\ nodes[PrevLink.node].tag_name = "rect"
    /\ nodes[nodes[PrevLink.node].parent].tag_name = "g"
    /\ nodes[nodes[nodes[PrevLink.node].parent].parent].tag_name = "mask"
    /\ AttrOf(PrevLink.node, "visibility") = Absent
    /\ AttrOf(PrevLink.node, "filter") = Absent
    /\ err = "none"

\* C12: resolving a `filter` link without fallback and with an unresolved
\* target on a `use` element fails with BrokenFuncIri and changes no node,
\* inside a mask, clipPath or marker as well as outside.
C12_UnresolvedFilterOnUseFails ==
    [][(Resolving /\ CurLink.attr_id = "filter" /\ CurLink.fbk = ""
          /\ post.elems_with_id[CurLink.iri] = NONE
          /\ nodes[CurLink.node].tag_name = "use") =>
          /\ err' = "BrokenFuncIri" /\ pc' = "error"
          /\ nodes' = nodes]_vars

\* C12's case: an unresolved `filter` on the `use` inside the mask has
\* ended link resolution
C12_Witness ==
    /\ Resolved
    /\ PrevLink.attr_id = "filter" /\ PrevLink.fbk = ""
    /\ post.elems_with_id[PrevLink.iri] = NONE
    /\ nodes[PrevLink.node].tag_name = "use"
    /\ \E a \in Ancestors(PrevLink.node) : nodes[a].tag_name = "mask"
    /\ err = "BrokenFuncIri" /\ pc = "error"

\* C16: parse_svg returns no document in which the first element under
\* the root is not svg, the root has no children, a link that carries a
\* fallback has a declared target, or a `filter` link without fallback on
\* a `use` element has no declared target.
C16_StructuralViolationsAbort ==
    pc = "done" =>
        /\ has_children(nodes, ROOT)
        /\ root_svg_elements(nodes) # <<>>
        /\ nodes[root_svg_elements(nodes)[1]].tag_name = "svg"
        /\ \A i \in 1..Len(post.links) :
              /\ ~(post.links[i].fbk # "" /\ Declaring(post.links[i].iri) # {})
              /\ ~(/\ post.links[i].attr_id = "filter"
                   /\ post.links[i].fbk = ""
                   /\ Declaring(post.links[i].iri) = {}
                   /\ nodes[post.links[i].node].tag_name = "use")

----------------------------------------------------------------------------
(* Claims about the precedence of `style`, checked under SpecStyle *)

\* the value the declaration of `fill` in a style text stands for
StyleFillValue(span) ==
    CASE span = "fill:red" -> ColorValue("red")
      [] span = "fill:url(#a)" -> LinkValue(GradientNode)
      [] span = "fill:url(#m)" -> PredefValue("none")

\* C6: when parse_svg returns, a `fill` given both as a plain attribute and
\* in the `style` attribute of the node has the value from `style`.
C6_StyleValueWins ==
    pc = "done" =>
        \A i \in 1..Len(post.style_attrs) :
            AttrOf(post.style_attrs[i].node, "fill")
                = StyleFillValue(post.style_attrs[i].span)

----------------------------------------------------------------------------
(* Claims about attributes and entities, checked under SpecAttrs *)

\* C13: an EntityDeclaration token whose trimmed text begins with `<` ends
\* the token pass with UnsupportedEntity: the entity table and the nodes
\* are as before the token, and no token is processed after an error.
C13_MarkupEntityRejected ==
    [][/\ pc # "error"
       /\ \A v \in {"<x/>", " <x/>"} :
             EntityDeclaration("e", v) =>
                /\ err' = "UnsupportedEntity" /\ pc' = "error"
                /\ post' = post /\ nodes' = nodes]_vars

\* C13's case: the token pass has ended at an ENTITY with markup, with
\* nothing recorded
C13_Witness ==
    /\ pc = "error" /\ err = "UnsupportedEntity"
    /\ post.entitis["e"] = ""
    /\ Len(nodes) = 1 /\ log = <<>>

\* C15: during and after the token pass no two nodes hold the same
\* non-empty id.
C15_IdHeldByOneNode ==
    \A i \in IdNames : Cardinality(Declaring(i)) <= 1

\* the errors of a value that does not parse
ValueErrors ==
    {"InvalidAttributeValue", "InvalidTransform", "InvalidPath",
     "InvalidLength"}

\* C17: with skip_invalid_attributes on, no attribute value that fails to
\* parse ends the parse with its error, whatever the attribute id.
C17_InvalidValueSkipped ==
    opt.skip_invalid_attributes => err \notin ValueErrors

----------------------------------------------------------------------------
(* Claims about references to entities, checked under SpecEntity *)

\* C14: an attribute of an SVG element, of a known id (`fill`) or of a
\* foreign name (`data-x`) that the options keep, whose value refers to an
\* entity that is not declared, is on the node with the text `&e;` as its
\* value, and the token pass ends without an error.
C14_UndeclaredEntityKept ==
    (post.entitis["e"] = "" /\ opt.parse_unknown_attributes) =>
        /\ \A name \in {"fill", "data-x"} :
              AttrOf(RectNode, name) = StringValue("&e;")
        /\ log = <<>> => err = "none"


----------------------------------------------------------------------------
(* Claims about the iterators (specification SpecIter) *)

\* the nodes of the subtree of r
Sub(r) == {n \in 1..Len(nodes) : n = r \/ r \in Ancestors(n)}
\* the positions at which the item x was returned
At(x) == {i \in 1..Len(yielded) : yielded[i] = x}
\* b follows a in a chain of siblings
Follows(a, b) ==
    a # b /\ \E i \in 1..Len(ChildrenFrom(nodes, a)) :
                 ChildrenFrom(nodes, a)[i] = b
\* the Traverse has returned None
Exhausted == At(None) # {}

\* C19: a Traverse started at a node r of a tree that is not changed
\* returns one Start and one End event for each node of the subtree of r
\* and for no other node, Start(n) before and End(n) after every event of
\* the descendants of n, siblings in the order of their chain, the first
\* event Start(r) and the last End(r), and after that None on every call.
C19_TraverseWalksSubtree ==
    iter.kind = "Traverse" =>
        /\ \A i \in 1..Len(yielded) :
              yielded[i] # None => yielded[i].node \in Sub(iter.root)
        /\ \A n \in Sub(iter.root) :
              /\ Cardinality(At(Start(n))) <= 1
              /\ Cardinality(At(End(n))) <= 1
              /\ \A j \in At(End(n)) : \E i \in At(Start(n)) : i < j
              /\ \A m \in Sub(n) \ {n} :
                    /\ \A k \in At(Start(m)) \cup At(End(m)) :
                          /\ \E i \in At(Start(n)) : i < k
                          /\ \A j \in At(End(n)) : k < j
              /\ \A b \in Sub(iter.root) \ {iter.root} :
                    Follows(n, b) /\ n # iter.root =>
                        \A j \in At(Start(b)) : \E i \in At(End(n)) : i < j
        /\ Len(yielded) >= 1 => yielded[1] = Start(iter.root)
        /\ \A i \in At(None) :
              /\ \A j \in i..Len(yielded) : yielded[j] = None
              /\ i > 1
              /\ yielded[i - 1] = None \/ yielded[i - 1] = End(iter.root)
        /\ Exhausted =>
              \A n \in Sub(iter.root) :
                  At(Start(n)) # {} /\ At(End(n)) # {}

\* a Traverse started at a node with a parent, a following sibling and a
\* child has been called until it returned None MaxIdle times
C19_Witness ==
    /\ iter.kind = "Traverse"
    /\ nodes[iter.root].parent # NONE
    /\ nodes[iter.root].next_sibling # NONE
    /\ nodes[iter.root].first_child # NONE
    /\ Cardinality(At(None)) = MaxIdle
    /\ Len(yielded) = 2 * Cardinality(Sub(iter.root)) + MaxIdle

\* the referrers of the list that are alive, in the order of the list
Live(data) == SelectSeq(data, LAMBDA n : n # NONE)
\* the items a consumer of the iterator receives: those returned before the
\* first None
RECURSIVE Consumed(_)
Consumed(items) ==
    IF items = <<>> \/ Head(items) = None THEN <<>>
    ELSE <<Head(items).node>> \o Consumed(Tail(items))

\* C20: a LinkedNodes over a list of live and expired entries in any order
\* yields every live referrer once, in the order of the list, and skips
\* the expired entries: an expired entry hides no live entry after it.
C20_LiveReferrersAllYielded ==
    iter.kind = "LinkedNodes" /\ Exhausted =>
        Consumed(yielded) = Live(iter.data)

\* C21: a Parents iterator started at any node returns that node and the
\* nodes of its chain of parents, the nearest first, returns no node
\* of type Root, returns None for the first time after the node whose
\* parent is the root or is missing, and does so on every tree, attached
\* or detached, after at most as many calls as there are nodes.
C21_ParentsWalkChain ==
    iter.kind = "Parents" =>
        /\ \A i \in 1..Len(yielded) :
              yielded[i] # None =>
                  /\ nodes[yielded[i].node].node_type # "Root"
                  /\ i > 1 => /\ yielded[i - 1] # None
                              /\ yielded[i].node =
                                     nodes[yielded[i - 1].node].parent
        /\ \A i \in At(None) :
              /\ \A j \in i..Len(yielded) : yielded[j] = None
              /\ i > 1 /\ yielded[i - 1] # None =>
                    \/ nodes[yielded[i - 1].node].parent = NONE
                    \/ nodes[nodes[yielded[i - 1].node].parent].node_type
                           = "Root"
        /\ Len(yielded) >= 1 =>
              yielded[1] = IF nodes[call.arg].node_type = "Root" THEN None
                           ELSE Some(call.arg)
        /\ \A i \in 1..Len(yielded) : i >= Len(nodes) => yielded[i] = None
        /\ \A i, j \in 1..Len(yielded) :
              i # j /\ yielded[i] # None => yielded[i] # yielded[j]

\* a Parents iterator has returned a node, its parent, which is a child of
\* the root, and then None MaxIdle times
C21_Witness ==
    /\ iter.kind = "Parents"
    /\ Len(yielded) = 2 + MaxIdle
    /\ yielded[1] # None /\ yielded[2] # None
    /\ nodes[yielded[2].node].parent = ROOT
    /\ Cardinality(At(None)) = MaxIdle


----------------------------------------------------------------------------
(* Claims about the run of parse_svg (specifications Spec and SpecPrune) *)

\* C28: in the token pass, while current_parent is the document root, the
\* token that makes a second child of the root exist that is not the `svg`
\* element ends the parse with NoSvgElement: the loop takes no token after
\* it, so no state of the loop has the root as current_parent and a second
\* child of the root that is not `svg`.
C28_SecondTopLevelChildIsSvg ==
    (/\ pc = "tokens"
     /\ nodes[cur_parent].node_type = "Root"
     /\ Len(children(nodes, ROOT)) >= 2) =>
        is_tag_name(nodes, children(nodes, ROOT)[2], "svg")
\* the phases of parse_svg that follow the token pass, in the order of its
\* statements
PhaseOrder ==
    <<"checks", "drain_style", "drain_unknown", "css", "style", "links",
      "text">>
\* the phases that ran are the first phases of PhaseOrder, none of them
\* while tokens are still taken; a finished run ran them all, text
\* normalization last, and returned no error; a failed run did not run it;
\* the statement to run next is the next phase, or the next turn of the
\* loop of the phase that runs
PhasesInOrder ==
    /\ Len(log) <= Len(PhaseOrder)
    /\ \A i \in 1..Len(log) : log[i] = PhaseOrder[i]
    /\ pc = "tokens" => log = <<>>
    /\ pc = "done" => log = PhaseOrder /\ err = "none"
    /\ pc = "error" <=> err # "none"
    /\ pc = "error" => \A i \in 1..Len(log) : log[i] # "text"
    /\ pc \notin {"tokens", "done", "error"} =>
          \/ pc = PhaseOrder[Len(log) + 1]
          \/ pc \in {"style", "links"} /\ log # <<>> /\ pc = log[Len(log)]

\* C29: every run of parse_svg goes through the token pass, the checks for
\* an empty document and for the svg root, the removal of style elements,
\* the removal of unknown elements, CSS resolution, style attribute
\* expansion, link resolution and text normalization in this order; text
\* normalization runs once on a run that succeeds and not at all on a run
\* that returns an error, and nothing runs after a phase returned an error.
C29_PhasesInFixedOrder ==
    /\ []PhasesInOrder
    /\ [][pc = "error" => pc' = "error" /\ log' = log /\ nodes' = nodes]_vars

\* a run over a document with a style sheet has gone through all phases
C29_Witness ==
    /\ pc = "done"
    /\ log = PhaseOrder
    /\ post.css_list # <<>>
\* the nodes that can be reached from the root
Reachable == {n \in 1..Len(nodes) : n = ROOT \/ ROOT \in Ancestors(n)}
\* the elements whose tag is no ElementId
UnknownElements ==
    {n \in 1..Len(nodes) :
        nodes[n].node_type = "Element" /\ nodes[n].tag_name \notin ElementIds}
\* the nodes that are a `style` element or inside one
InStyle ==
    {n \in 1..Len(nodes) :
        \E s \in {n} \cup Ancestors(n) : is_tag_name(nodes, s, "style")}

\* C30: in a document that parse_svg returns no `style` element can be
\* reached from the root; with parse_unknown_elements off no element with
\* an unknown tag can be reached from the root; with it on every element
\* with an unknown tag that is not inside a `style` element is still there.
C30_StyleAndUnknownRemoved ==
    pc = "done" =>
        /\ \A n \in Reachable : ~is_tag_name(nodes, n, "style")
        /\ ~opt.parse_unknown_elements => UnknownElements \cap Reachable = {}
        /\ opt.parse_unknown_elements =>
              UnknownElements \ InStyle \subseteq Reachable

\* a document was returned with parse_unknown_elements off whose svg
\* element held, at some depth, a `style` element and outside of it an
\* element with an unknown tag
C30_Witness ==
    /\ pc = "done"
    /\ ~opt.parse_unknown_elements
    /\ \E n \in UnknownElements \ InStyle : nodes[n].parent = NONE
    /\ \E n \in 1..Len(nodes) :
          is_tag_name(nodes, n, "style") /\ nodes[n].parent = NONE
----------------------------------------------------------------------------
(* Claims about the node tree (specifications SpecDom and SpecDrain) *)

\* the nodes of the subtree of r in the nodes ns
SubIn(ns, r) == {n \in 1..Len(ns) : n = r \/ r \in AncestorsIn(ns, n)}
\* the sequence seq without the members of S
Without(seq, S) == SelectSeq(seq, LAMBDA x : x \notin S)
\* the places of the child chains of ns at which the node c stands
Occurrences(ns, c) ==
    {pl \in (1..Len(ns)) \X (1..Len(ns)) :
        /\ pl[2] <= Len(children(ns, pl[1]))
        /\ children(ns, pl[1])[pl[2]] = c}
\* the node k steps of next_sibling after n
RECURSIVE NthSibling(_, _)
NthSibling(n, k) ==
    IF k = 0 \/ n = NONE THEN n
    ELSE NthSibling(nodes[n].next_sibling, k - 1)
\* a node that create_element or create_node just returned
Fresh(nd) ==
    /\ nd.parent = NONE
    /\ nd.prev_sibling = NONE /\ nd.next_sibling = NONE
    /\ nd.first_child = NONE /\ nd.last_child = NONE
    /\ nd.id = ""
    /\ \A a \in AttributeKeys : nd.attributes[a] = Absent
    /\ nd.doc = ROOT

\* C22: a node returned by create_element or create_node has no parent, no
\* siblings, no children, an empty id and no attributes, refers to the root
\* of the document that created it, and no node that existed is changed;
\* create_element with an empty tag name panics and creates no node.
C22_CreatedNodeDetached ==
    [][call'.op \in {"create_element", "create_node"} =>
          /\ call'.panic <=> (call'.op = "create_element" /\ call'.arg = "")
          /\ call'.panic => nodes' = nodes
          /\ ~call'.panic =>
                /\ Len(nodes') = Len(nodes) + 1
                /\ call'.value = Len(nodes')
                /\ \A n \in 1..Len(nodes) : nodes'[n] = nodes[n]
                /\ Fresh(nodes'[call'.value])]_vars

\* create_element returned a node while the root had a child
C22_Witness ==
    /\ call.op = "create_element"
    /\ ~call.panic
    /\ nodes[ROOT].first_child # NONE
    /\ Fresh(nodes[call.value])

\* C23: after append(parent, child), whether child was detached or a child
\* of the same or of another parent, child stands at one place of the tree,
\* the last of parent's children, its subtree is as before, child is the
\* node returned, and the children of the former parent are those it had
\* without child.
C23_AppendMovesChild ==
    [][call'.op = "append" =>
          /\ call'.value = call'.arg[2]
          /\ Occurrences(nodes', call'.arg[2])
                 = {<<call'.arg[1], Len(children(nodes', call'.arg[1]))>>}
          /\ nodes'[call'.arg[2]].parent = call'.arg[1]
          /\ nodes'[call'.arg[1]].last_child = call'.arg[2]
          /\ children(nodes', call'.arg[1])
                 = Append(Without(children(nodes, call'.arg[1]),
                                  {call'.arg[2]}), call'.arg[2])
          /\ \A m \in SubIn(nodes, call'.arg[2]) :
                /\ children(nodes', m) = children(nodes, m)
                /\ m # call'.arg[2] => nodes'[m] = nodes[m]
          /\ call'.from = nodes[call'.arg[2]].parent
          /\ \A q \in 1..Len(nodes) :
                q # call'.arg[1] =>
                    children(nodes', q)
                        = Without(children(nodes, q), {call'.arg[2]})]_vars

\* a node that has a child was appended to a parent other than the one it
\* was a child of
C23_Witness ==
    /\ call.op = "append"
    /\ call.from \notin {NONE, call.arg[1]}
    /\ nodes[call.arg[2]].first_child # NONE
    /\ nodes[call.arg[1]].last_child = call.arg[2]

\* C24: whatever nodes were created, appended, detached and drained, for
\* every node that has a first child, the next_sibling fields lead from the
\* first child to the last child in fewer steps than there are nodes, the
\* last child has no next sibling, and the first child no previous one.
C24_SiblingChainEndsAtLastChild ==
    \A n \in 1..Len(nodes) :
        nodes[n].first_child # NONE =>
            /\ nodes[nodes[n].first_child].prev_sibling = NONE
            /\ nodes[n].last_child # NONE
            /\ \E k \in 0..(Len(nodes) - 1) :
                  NthSibling(nodes[n].first_child, k) = nodes[n].last_child
            /\ nodes[nodes[n].last_child].next_sibling = NONE

\* a drain removed a node and left its parent with two children or more
C24_Witness ==
    /\ call.op = "drain"
    /\ call.value >= 1
    /\ \E n \in 1..Len(nodes) :
          /\ nodes[n].first_child # NONE
          /\ nodes[n].first_child # nodes[n].last_child

\* the nodes below the root that M holds for and for no node between them
\* and the root
Topmost(M) ==
    {n \in M : ROOT \in Ancestors(n) /\ Ancestors(n) \cap M \subseteq {ROOT}}
\* the nodes of the subtrees of the nodes of T
Subtrees(T) == UNION {Sub(t) : t \in T}

\* C25: drain(p) leaves the root in place even when p holds for it,
\* detaches each topmost node below the root for which p holds, with its
\* subtree as it was, leaves the other nodes attached as they were and in
\* their order, and returns the number of the nodes it detached, not
\* counting the nodes inside a detached subtree for which p holds too.
C25_DrainDetachesTopmost ==
    [][call'.op = "drain" =>
          /\ call'.value = Cardinality(Topmost(call'.arg))
          /\ \A t \in Topmost(call'.arg) :
                /\ nodes'[t].parent = NONE
                /\ nodes'[t].prev_sibling = NONE
                /\ nodes'[t].next_sibling = NONE
                /\ Occurrences(nodes', t) = {}
          /\ \A m \in Subtrees(Topmost(call'.arg)) :
                /\ children(nodes', m) = children(nodes, m)
                /\ m \notin Topmost(call'.arg) => nodes'[m] = nodes[m]
          /\ \A n \in (1..Len(nodes)) \ Subtrees(Topmost(call'.arg)) :
                /\ nodes'[n].parent = nodes[n].parent
                /\ children(nodes', n)
                       = Without(children(nodes, n), Topmost(call'.arg))
          /\ Len(nodes') = Len(nodes)]_vars

\* a drain whose predicate holds for the root, for a node and its child and
\* for another node has returned 2
C25_Witness ==
    /\ call.op = "drain"
    /\ ROOT \in call.arg
    /\ call.value = 2
    /\ \E a \in call.arg : \E b \in call.arg :
          nodes[b].parent = a /\ nodes[a].parent = NONE

----------------------------------------------------------------------------
(* Claims about attributes (specification SpecAttribute) *)

\* the known attribute ids for which is_presentation returns true
PresentationIds ==
    {id \in KnownAttributeIds :
        is_presentation(AttributeOf(id, StringValue("x"), TRUE))}

\* C26: is_presentation returns true for the members of a fixed set of 57
\* attribute ids and false for every other known attribute id.
C26_PresentationSetOf57 ==
    call.op = "is_presentation" =>
        /\ call.value <=> call.arg.id \in PresentationIds
        /\ Cardinality(PresentationIds) = 57

\* C26 as the list has it: is_presentation returns true for the 59
\* attribute ids of PRESENTATION_ATTRIBUTES, which are all different, and
\* false for every other known attribute id, whatever the value and the
\* visibility of the attribute.
C26_PresentationSetOf59 ==
    call.op = "is_presentation" =>
        /\ call.value <=> call.arg.id \in PresentationIds
        /\ call.arg.id \in OtherAttributeIds => ~call.value
        /\ Cardinality(PresentationIds) = 59
        /\ "fill" \in PresentationIds /\ "marker" \in PresentationIds
        /\ "writing-mode" \in PresentationIds

\* is_presentation has returned true for a hidden `fill` attribute
C26_Witness ==
    /\ call.op = "is_presentation"
    /\ call.arg.id = "fill"
    /\ ~call.arg.visible
    /\ call.value

\* the bytes of a ListSeparator
separator(s) ==
    CASE s = "Comma" -> <<",">>
      [] s = "Space" -> <<" ">>
      [] s = "CommaSpace" -> <<", ">>
\* the items from item i on, each followed by sep but the last
RECURSIVE Joined(_, _, _)
Joined(list, sep, i) ==
    IF i > Len(list) THEN <<>>
    ELSE <<written(list[i])>> \o (IF i < Len(list) THEN sep ELSE <<>>)
             \o Joined(list, sep, i + 1)
\* what was written between the quotes
Body(buf) == SubSeq(buf, 4, Len(buf) - 1)

\* C27: an attribute that holds a NumberList or a LengthList is written
\* with the separator of the option list_separator between consecutive
\* items (`,`, a space, or `, `), with none after the last item and with
\* nothing for an empty list.
C27_ListSeparatorWritten ==
    (/\ call.op = "write_buf_opt"
     /\ call.arg.value.k \in {"NumberList", "LengthList"}) =>
        Body(call.value)
            = Joined(call.arg.value.v, separator(call.opt.list_separator), 1)

----------------------------------------------------------------------------
(* Claims about the cursors of the token pass (specification Spec) *)

\* what process_token makes of an ElementEnd(Close) token in this state
AfterClose ==
    process_token(PS(nodes, cur_node, cur_parent, post, "none"), opt,
                  Token("ElementEnd", "Close", ""))

\* C31: after any sequence of tokens, balanced or not, current_parent is
\* the document root or an element whose parent chain reaches the root; an
\* ElementEnd(Close) token taken while current_parent is the root leaves it
\* at the root, and one taken elsewhere moves it to its parent, which
\* exists: the ascent never fails.
C31_ParentAttachedAndAscends ==
    /\ pc = "tokens" =>
          \/ cur_parent = ROOT
          \/ /\ nodes[cur_parent].node_type = "Element"
             /\ ROOT \in Ancestors(cur_parent)
    /\ (pc = "tokens" /\ tk = "content") =>
          \A r \in {AfterClose} :
              /\ r.err # "panic"
              /\ r.parent # NONE
              /\ r.parent = IF cur_parent = ROOT THEN ROOT
                            ELSE nodes[cur_parent].parent

\* C31's case: an element with a child was closed, which took
\* current_parent back to the root, and the token pass goes on
C31_Witness ==
    /\ pc = "tokens"
    /\ cur_parent = ROOT
    /\ \E n \in 1..Len(nodes) : nodes[n].parent \notin {NONE, ROOT}

----------------------------------------------------------------------------
(* The token pass over well-nested documents: any forest of up to MaxNodes *)
(* elements named svg or text, each start tag followed by nothing, by      *)
(* text, by a comment or by white space.                                   *)

NestTags == {"svg", "text"}
Fillers == {"", "Text", "Comment", "Whitespaces"}

\* the token of a filler
filler_tokens(f) ==
    IF f = "" THEN <<>>
    ELSE <<Token(f, "", IF f = "Whitespaces" THEN " " ELSE "x")>>

\* the tokens of the elements i.. of the forest: d[i] is the depth of
\* element i, t[i] its tag, f[i] what follows its start tag
RECURSIVE nested_tokens(_, _, _, _)
nested_tokens(d, t, f, i) ==
    IF i > Len(d) THEN <<>>
    ELSE <<Token("ElementStart", t[i], "")>>
         \o (IF depth_after(d, i) > d[i]
             THEN <<Token("ElementEnd", "Open", "")>> \o filler_tokens(f[i])
             ELSE <<Token("ElementEnd", "Empty", "")>> \o filler_tokens(f[i])
                      \o closing_tags(d[i] - depth_after(d, i)))
         \o nested_tokens(d, t, f, i + 1)

NestOptions ==
    {[DefaultOptions EXCEPT !.parse_comments = c] : c \in BOOLEAN}

\* parse_svg(text, opt) up to the end of its token loop, text the document
\* with the tokens toks
ParseSvgCalled(toks, o) ==
    \E s \in {process_tokens(PS(new_document, NONE, ROOT, new_post_data,
                                "none"), o, toks, 1)} :
        /\ nodes = s.nodes
        /\ cur_node = s.node
        /\ cur_parent = s.parent
        /\ post = s.post
        /\ opt = o
        /\ tk = "content"
        /\ pc = IF s.err = "none" THEN "tokens" ELSE "error"
        /\ err = s.err
        /\ idx = 1
        /\ log = <<>>
        /\ iter = NoIter
        /\ yielded = <<>>
        /\ call = Called("parse_svg", toks)

InitNest ==
    \E d \in ContentDepths : \E t \in [1..Len(d) -> NestTags] :
        \E f \in [1..Len(d) -> Fillers] : \E o \in NestOptions :
            ParseSvgCalled(nested_tokens(d, t, f, 1), o)

SpecNest == InitNest /\ [][AfterTokens]_vars

----------------------------------------------------------------------------
(* Claims about the tree the token pass builds (specification SpecNest) *)

\* the nesting of a token sequence, read off the tokens i.. alone: for
\* each element, in token order, the index of the innermost element that
\* is open when it starts (0 if none); open is the stack of the elements
\* opened and not closed
RECURSIVE nesting(_, _, _, _)
nesting(toks, i, open, ps) ==
    IF i > Len(toks) THEN ps
    ELSE CASE toks[i].t = "ElementStart" ->
                nesting(toks, i + 1, open,
                        Append(ps, IF open = <<>> THEN 0
                                   ELSE open[Len(open)]))
           [] toks[i].t = "ElementEnd" /\ toks[i].name = "Open" ->
                nesting(toks, i + 1, Append(open, Len(ps)), ps)
           [] toks[i].t = "ElementEnd" /\ toks[i].name = "Close" ->
                nesting(toks, i + 1, SubSeq(open, 1, Len(open) - 1), ps)
           [] OTHER -> nesting(toks, i + 1, open, ps)

\* the tags of the ElementStart tokens, in token order
StartTags(toks) ==
    LET starts == SelectSeq(toks, LAMBDA tok : tok.t = "ElementStart")
    IN  [j \in 1..Len(starts) |-> starts[j].name]

\* the element nodes in the order of their creation
RECURSIVE ElementsFrom(_)
ElementsFrom(n) ==
    IF n > Len(nodes) THEN <<>>
    ELSE (IF nodes[n].node_type = "Element" THEN <<n>> ELSE <<>>)
             \o ElementsFrom(n + 1)

\* C32: for every well-nested sequence of ElementStart and ElementEnd
\* tokens, interleaved with text, comment and whitespace tokens, the tree
\* the token pass builds mirrors the nesting: each element's parent is the
\* innermost element open when it started (the root if none), and the
\* children of each node are in token order.
C32_TreeMirrorsNesting ==
    (call.op = "parse_svg" /\ pc = "tokens") =>
        \A es \in {ElementsFrom(1)} :
        \A ps \in {nesting(call.arg, 1, <<>>, <<>>)} :
            /\ Len(es) = Len(ps)
            /\ \A j \in 1..Len(es) :
                  /\ nodes[es[j]].tag_name = StartTags(call.arg)[j]
                  /\ nodes[es[j]].parent
                        = IF ps[j] = 0 THEN ROOT ELSE es[ps[j]]
            /\ \A n \in 1..Len(nodes) : \A cs \in {children(nodes, n)} :
                  /\ \A a, b \in 1..Len(cs) : a < b => cs[a] < cs[b]
                  /\ \A c \in 1..Len(nodes) :
                        nodes[c].parent = n =>
                            \E a \in 1..Len(cs) : cs[a] = c

\* C32's case: the token pass has built a tree with an element two levels
\* below the root and with a node that is no element
C32_Witness ==
    /\ call.op = "parse_svg"
    /\ pc = "tokens"
    /\ \E n \in 1..Len(nodes) :
          /\ nodes[n].node_type = "Element"
          /\ nodes[n].parent \notin {NONE, ROOT}
          /\ nodes[nodes[n].parent].parent # ROOT
    /\ \E n \in 1..Len(nodes) : nodes[n].node_type \in {"Text", "Comment"}

----------------------------------------------------------------------------
(* The token pass over documents with character data: svg and style        *)
(* elements, `type` attributes, Text and Cdata tokens.                     *)

TextTags == {"svg", "style"}
TypeTexts == {"text/css", "text/plain"}

InitText == ParseStart(DefaultOptions)

NextText ==
    \/ \E t \in TextTags : ElementStart(t)
    \/ \E v \in TypeTexts : Attribute("type", v)
    \/ ElementEndEmpty
    \/ ElementEndOpen
    \/ ElementEndClose
    \/ TextOrCdata("Text")
    \/ TextOrCdata("Cdata")

SpecText == InitText /\ [][NextText]_vars

----------------------------------------------------------------------------
(* Claims about character data (specification SpecText) *)

\* current_parent is a `style` element whose `type` is unset or text/css
InStyleSheet ==
    /\ nodes[cur_parent].node_type = "Element"
    /\ nodes[cur_parent].tag_name = "style"
    /\ nodes[cur_parent].attributes["type"]
          \in {Absent, StringValue("text/css")}

\* node c became the last child of p, and nothing else changed in the tree
AppendedLast(p, c) ==
    /\ Len(nodes') = Len(nodes) + 1
    /\ c = Len(nodes')
    /\ nodes'[c].parent = p
    /\ nodes'[c].first_child = NONE
    /\ nodes'[p].last_child = c
    /\ children(nodes', p) = Append(children(nodes, p), c)
    /\ \A n \in 1..Len(nodes) :
          /\ n # p => children(nodes', n) = children(nodes, n)
          /\ nodes'[n].parent = nodes[n].parent
          /\ nodes'[n].attributes = nodes[n].attributes
          /\ nodes'[n].node_type = nodes[n].node_type

\* C33: a Text or Cdata token taken while current_parent is a `style`
\* element whose `type` is unset or `text/css` adds exactly one entry to
\* the raw stylesheet list, creates no node and changes neither cursor; in
\* every other case it appends exactly one Text or Cdata node as last child
\* of current_parent and leaves the stylesheet list unchanged.
C33_CharacterDataBufferedOrAppended ==
    [][\A t \in {"Text", "Cdata"} :
          TextOrCdata(t) =>
              IF InStyleSheet
              THEN /\ Len(post'.css_list) = Len(post.css_list) + 1
                   /\ SubSeq(post'.css_list, 1, Len(post.css_list))
                         = post.css_list
                   /\ nodes' = nodes
                   /\ cur_node' = cur_node
                   /\ cur_parent' = cur_parent
              ELSE /\ AppendedLast(cur_parent, Len(nodes) + 1)
                   /\ nodes'[Len(nodes')].node_type = t
                   /\ post'.css_list = post.css_list]_vars

\* C33's case: character data of a `style` element was buffered, and that
\* of a `style` element of another type became a node
C33_Witness ==
    /\ post.css_list # <<>>
    /\ \E n \in 1..Len(nodes) :
          /\ nodes[n].node_type \in {"Text", "Cdata"}
          /\ is_tag_name(nodes, nodes[n].parent, "style")

----------------------------------------------------------------------------
(* The parse of documents whose entity refers to itself: ENTITY            *)
(* declarations of e as "red" or as "&e;", then g and svg elements with    *)
(* fill="&e;" and style="&e;".                                             *)

CycleTexts == {"red", "&e;"}

InitCycle == ParseStart(DefaultOptions)

NextCycle ==
    \/ \E v \in CycleTexts : Len(nodes) = 1 /\ EntityDeclaration("e", v)
    \/ \E t \in {"g", "svg"} : ElementStart(t)
    \/ Attribute("fill", "&e;")
    \/ Len(post.style_attrs) < MaxStyleAttrs /\ Attribute("style", "&e;")
    \/ ElementEndEmpty
    \/ ElementEndOpen
    \/ ElementEndClose
    \/ AfterTokens

SpecCycle == InitCycle /\ [][NextCycle]_vars

----------------------------------------------------------------------------
(* Claims about entity expansion (specification SpecCycle) *)

\* C34: entity expansion terminates for every entity table: expanding an
\* entity reference in a known attribute value or in a `style` attribute
\* finishes after finitely many steps, also when an entity's replacement
\* text refers to itself; the recursion never runs out of stack.
C34_EntityExpansionTerminates == err # "StackOverflow"

----------------------------------------------------------------------------
(* Iteration over a document that changes: a caller holds a Traverse and,  *)
(* between its calls of next(), detaches nodes.                            *)

InitDetach ==
    \E pv \in ParentVectors : \E ns \in {build_tree(new_document, pv, 1)} :
        \E r \in 1..Len(ns) :
            Iterating(ns, new_traverse(r), Called("Traverse::new", r))

NextDetach ==
    \/ TraverseNext
    \/ \E n \in 1..Len(nodes) : DetachNode(n)

SpecDetach == InitDetach /\ [][NextDetach]_vars

----------------------------------------------------------------------------
(* Claims about iteration over a changing tree (specification SpecDetach) *)

\* no event is returned twice, and None is followed by None only
EventsOnceThenNone ==
    \A i \in 1..Len(yielded) : \A j \in (i + 1)..Len(yielded) :
        /\ yielded[i] = None => yielded[j] = None
        /\ yielded[i] = yielded[j] => yielded[i] = None

\* the event returned last is the End of a node that now has neither a
\* next sibling nor a parent
EndOfCutOffNode ==
    /\ yielded # <<>>
    /\ \E e \in {yielded[Len(yielded)]} :
          /\ e.edge = "End"
          /\ nodes[e.node].next_sibling = NONE
          /\ nodes[e.node].parent = NONE

\* C35: if nodes are detached between two calls of Traverse::next, the
\* iteration does not fail and returns no event twice, and when the node
\* whose End event was returned last has neither a next sibling nor a
\* parent, the following call returns None, as does every later call.
C35_DetachedTraverseStops ==
    /\ [](iter.kind = "Traverse" => EventsOnceThenNone)
    /\ [][(yielded' # yielded /\ EndOfCutOffNode) =>
             yielded' = Append(yielded, None)]_vars

\* C35, with the time at which the node is looked at: if nodes are detached
\* between two calls of Traverse::next, the iteration does not fail and
\* returns no event twice, and when the node whose End event a call
\* returns has, during that call, neither a next sibling nor a parent, the
\* following call returns None, as does every later call.
C35_CutOffAtEndStops ==
    /\ [](iter.kind = "Traverse" => EventsOnceThenNone)
    /\ [][\A n \in 1..Len(nodes) :
             (/\ yielded' = Append(yielded, End(n))
              /\ nodes[n].next_sibling = NONE
              /\ nodes[n].parent = NONE) => iter'.next = None]_vars
    /\ [][(yielded' # yielded /\ iter.next = None) =>
             yielded' = Append(yielded, None)]_vars

\* C35's case: after a detach, the End of a node other than the start node
\* was returned and the call after it returned None
C35_Witness ==
    /\ iter.kind = "Traverse"
    /\ call.op = "detach"
    /\ \E i \in 2..Len(yielded) :
          /\ yielded[i] = None
          /\ yielded[i - 1].edge = "End"
          /\ yielded[i - 1].node # iter.root

----------------------------------------------------------------------------
(* Claims about unresolved links (specification SpecLinks) *)

\* C36: resolving a link on an attribute other than `filter` and `fill`
\* that has no fallback and whose target id is not in the index sets no
\* attribute, so the attribute stays absent unless something else had set
\* it, and reports no error: resolution goes on with the next entry.
C36_UnresolvedOtherLinkDropped ==
    [][(Resolving /\ CurLink.attr_id \notin {"filter", "fill"}
          /\ CurLink.fbk = ""
          /\ post.elems_with_id[CurLink.iri] = NONE) =>
          /\ nodes' = nodes
          /\ err' = "none" /\ pc' = "links" /\ idx' = idx + 1]_vars

\* C36's case: an unresolved `stroke` without fallback has been resolved
\* and another entry is still to be resolved
C36_Witness ==
    /\ Resolved
    /\ PrevLink.attr_id = "stroke" /\ PrevLink.fbk = ""
    /\ post.elems_with_id[PrevLink.iri] = NONE
    /\ AttrOf(PrevLink.node, "stroke") = Absent
    /\ err = "none"
    /\ pc = "links" /\ idx <= Len(post.links)

----------------------------------------------------------------------------
(* The token pass over documents with `class` attributes: g elements, each *)
(* with at most one class attribute of up to MaxClassLen characters, each  *)
(* a space or a letter.                                                    *)

ClassTexts == UNION {[1..k -> {" ", "a"}] : k \in 0..MaxClassLen}

\* no class usage of the element whose start tag is read was deferred
NoClassYet ==
    \A i \in 1..Len(post.class_attrs) : post.class_attrs[i].node # cur_node

InitClass == ParseStart(DefaultOptions)

NextClass ==
    \/ ElementStart("g")
    \/ \E v \in ClassTexts : NoClassYet /\ Attribute("class", v)
    \/ ElementEndEmpty

SpecClass == InitClass /\ [][NextClass]_vars

----------------------------------------------------------------------------
(* Claims about the `class` attribute (specification SpecClass) *)

\* the maximal runs of characters of v that are no spaces, from character
\* i on; cur is the run that character i - 1 ends, acc the runs before it
RECURSIVE runs(_, _, _, _)
runs(v, i, cur, acc) ==
    IF i > Len(v) THEN (IF cur = <<>> THEN acc ELSE Append(acc, cur))
    ELSE IF v[i] \in Spaces
         THEN runs(v, i + 1, <<>>, IF cur = <<>> THEN acc ELSE Append(acc, cur))
         ELSE runs(v, i + 1, Append(cur, v[i]), acc)

\* C37: for every value of a `class` attribute the token pass defers one
\* class usage per maximal run of non-whitespace characters, in order, each
\* token non-empty and without whitespace; an empty value and a value of
\* whitespace only defer nothing; no `class` attribute is stored.
C37_ClassSplitOnWhitespace ==
    [][\A v \in ClassTexts :
          (NoClassYet /\ Attribute("class", v)) =>
              /\ post'.class_attrs
                    = post.class_attrs
                        \o [i \in 1..Len(runs(v, 1, <<>>, <<>>)) |->
                              NodeSpanData(cur_node,
                                           runs(v, 1, <<>>, <<>>)[i])]
              /\ \A i \in 1..Len(post'.class_attrs) :
                    /\ post'.class_attrs[i].span # <<>>
                    /\ \A k \in 1..Len(post'.class_attrs[i].span) :
                          post'.class_attrs[i].span[k] \notin Spaces
              /\ nodes' = nodes]_vars

----------------------------------------------------------------------------
(* The parse of documents that refer to a pruned element: the document     *)
(*   <g/><g><svg> T <rect A="url(#a)"/></svg></g>                          *)
(* where T is an element with id="a", a style or a linearGradient, alone   *)
(* or as the child of a g or of an element with an unknown tag.            *)

TargetTags == {"style", "linearGradient"}
TargetWrappers == {"", "g", "foreign"}
ReferringAttrs == {"fill", "stroke", "filter"}

\* the tokens of T
target_tokens(t, w) ==
    (IF w = "" THEN <<>>
     ELSE <<Token("ElementStart", w, ""), Token("ElementEnd", "Open", "")>>)
        \o <<Token("ElementStart", t, "")>> \o IdA
        \o <<Token("ElementEnd", "Empty", "")>>
        \o (IF w = "" THEN <<>> ELSE closing_tags(1))

referring_tokens(t, w, a) ==
    <<Token("ElementStart", "g", ""), Token("ElementEnd", "Empty", ""),
      Token("ElementStart", "g", ""), Token("ElementEnd", "Open", ""),
      Token("ElementStart", "svg", ""), Token("ElementEnd", "Open", "")>>
        \o target_tokens(t, w)
        \o <<Token("ElementStart", "rect", ""),
             Token("Attribute", a, "url(#a)"),
             Token("ElementEnd", "Empty", "")>>
        \o closing_tags(2)

InitPruneLinks ==
    \E t \in TargetTags : \E w \in TargetWrappers : \E a \in ReferringAttrs :
        \E o \in PruneOptions : ParsedTokens(referring_tokens(t, w, a), o)

SpecPruneLinks == InitPruneLinks /\ [][AfterTokens]_vars

----------------------------------------------------------------------------
(* Claims about links and pruning (specification SpecPruneLinks) *)

----------------------------------------------------------------------------
(* The token pass over documents with unknown elements: elements named g   *)
(* or foreign with id, fill and data-x attributes.                         *)

ForeignTags == {"g", "foreign"}
ForeignAttrs ==
    {<<"id", "a">>, <<"fill", "url(#a)">>, <<"fill", "bad">>,
     <<"data-x", "1">>}

InitForeign == \E o \in AttrOptions : ParseStart(o)

NextForeign ==
    \/ \E t \in ForeignTags : ElementStart(t)
    \/ \E a \in ForeignAttrs :
          Len(post.links) < MaxLinks /\ Attribute(a[1], a[2])
    \/ ElementEndEmpty
    \/ ElementEndOpen
    \/ ElementEndClose

SpecForeign == InitForeign /\ [][NextForeign]_vars

----------------------------------------------------------------------------
(* Claims about attributes of unknown elements (specification SpecForeign) *)

\* Attribute tokens with a known attribute id, and with a foreign name
\* the value of a class attribute is the sequence of its characters
KnownAttrTokens ==
    {Token("Attribute", a[1], a[2]) :
        a \in {<<"id", "a">>, <<"id", "m">>, <<"style", "fill:red">>,
               <<"class", <<"a">>>>, <<"fill", "red">>, <<"fill", "url(#a)">>,
               <<"fill", "bad">>, <<"fill", "&e;">>, <<"transform", "bad">>,
               <<"d", "bad">>, <<"stroke-dasharray", "5 x">>}}
ForeignAttrTokens ==
    {Token("Attribute", "data-x", v) : v \in {"1", "&e;"}}

\* what process_token makes of the token tok in this state, and the state
\* with nothing changed and no error
AfterToken(tok) ==
    process_token(PS(nodes, cur_node, cur_parent, post, "none"), opt, tok)
Untouched == PS(nodes, cur_node, cur_parent, post, "none")

\* the start tag being read is that of an element with an unknown tag
InForeignTag ==
    /\ pc = "tokens" /\ tk = "tag"
    /\ nodes[cur_node].node_type = "Element"
    /\ nodes[cur_node].tag_name \notin ElementIds

\* C39: an Attribute token with a known attribute id taken while
\* current_node is an element with an unknown tag changes nothing: no
\* attribute is stored, the node's id stays empty, the id index gets no
\* entry and nothing is deferred; an Attribute token with a foreign name
\* changes nothing when parse_unknown_attributes is off.
C39_AttributeOfForeignElementIgnored ==
    /\ InForeignTag =>
          /\ \A tok \in KnownAttrTokens : AfterToken(tok) = Untouched
          /\ nodes[cur_node].id = ""
          /\ \A a \in AttributeIds : nodes[cur_node].attributes[a] = Absent
          /\ \A i \in IdNames : post.elems_with_id[i] # cur_node
    /\ (pc = "tokens" /\ tk = "tag" /\ ~opt.parse_unknown_attributes) =>
          \A tok \in ForeignAttrTokens : AfterToken(tok) = Untouched

\* C39's case: with parse_unknown_attributes off, the start tag of an
\* element with an unknown tag is read after that of an element that got
\* its id indexed and a link deferred; attribute tokens were taken
C39_Witness ==
    /\ InForeignTag
    /\ ~opt.parse_unknown_attributes
    /\ post.links # <<>>
    /\ \E i \in IdNames : post.elems_with_id[i] # NONE
====
